---- MODULE Spec2Model ----
(***************************************************************************)
(* Session/token lifecycle of panameconsulting.                            *)
(*                                                                         *)
(*  - the Request Gate: JwtAuthGuard (two copies in the repository: the    *)
(*    one with the logout override and backend/src/shared/guards) on top   *)
(*    of JwtStrategy.validate;                                             *)
(*  - the Session Client: the AuthProvider React component (login,         *)
(*    register, refresh, logout, the preventive-refresh timeout and the    *)
(*    session-age interval).                                               *)
(*                                                                         *)
(* Text is modelled as tuples of characters so that String.includes is a   *)
(* real substring search.  Time is counted in minutes.                     *)
(***************************************************************************)
EXTENDS Integers, Sequences, FiniteSets, Bags, TLC

VARIABLES
    \* ---- Request Gate (server) ----
    gphase,        \* "idle" | "pending" | "decided"
    greq,          \* the request being handled
    gdec,          \* the decision of canActivate for greq
    \* ---- JwtAuthGuard.handleRequest called with an error (server) ----
    hphase,        \* "idle" | "pending" | "thrown"
    herr,          \* the err passport hands to handleRequest
    hexc,          \* the exception handleRequest threw for herr
    \* ---- Credential Validator (server) ----
    vphase,        \* "idle" | "pending" | "decided"
    vreq,          \* the login attempt LocalStrategy.validate is called for
    vres,          \* what validate returned or threw for vreq
    \* ---- Request Gate under concurrent requests (server) ----
    slots,         \* the calls of canActivate in progress, each with its own locals
    accountActive, \* user.isActive of the account in the database
    lastArrived,   \* the call that entered canActivate last
    \* ---- Session Client (browser) ----
    now,           \* Date.now(), in minutes
    ls_token,      \* localStorage access_token
    ls_user,       \* localStorage user_data
    ls_start,      \* localStorage session_start
    st_token,      \* React state access_token (as committed by the last setAccessToken)
    st_user,       \* React state user
    isLoading,     \* React state isLoading
    error,         \* React state error
    phase,         \* "constructed" (rendered, effect not yet run) | "mounted"
    mountToken,    \* access_token of the first render (closure of setupTokenRefresh's logout)
    renderedToken, \* access_token of the latest render (closure of logout, the effect's deps)
    timeouts,      \* browser table of pending setTimeout callbacks
    intervals,     \* browser table of pending setInterval callbacks
    refreshTimeoutRef,        \* refreshTimeoutRef.current
    sessionCheckIntervalRef,  \* sessionCheckIntervalRef.current
    authReqs,      \* login/register requests awaiting their response
    refreshReqs,   \* refresh requests awaiting their response
    refreshFetches,\* refreshToken() awaiting fetchUserData(new token)
    checkFetches,  \* checkAuth() awaiting fetchUserData(saved token)
    location,      \* route the last handler navigated to ("" when it did not navigate)
    toasts,        \* toasts emitted by the last handler
    notified,      \* logout notification of the last handler: "none" (no logout ran),
                   \* "omitted", "current" (bears the stored token) or "stale"
    cancelled,     \* the last handler's clearTimeout hit a pending callback
    lastOp,        \* the last handler that ran, with its outcome
    installedBy,   \* the refreshToken() call whose response stored the present token
                   \* (0 when the token was not stored by a refresh)
    calls          \* number of calls the page's consumers have made so far

gvars == <<gphase, greq, gdec>>
lvars == <<vphase, vreq, vres>>
rvars == <<slots, accountActive, lastArrived>>
hvars == <<hphase, herr, hexc>>
svars == <<gvars, lvars, rvars, hvars>>
cvars == <<now, ls_token, ls_user, ls_start, st_token, st_user, isLoading, error,
           phase, mountToken, renderedToken, timeouts, intervals, refreshTimeoutRef,
           sessionCheckIntervalRef, authReqs, refreshReqs, refreshFetches,
           checkFetches, location, toasts, notified, cancelled, lastOp, installedBy,
           calls>>
vars == <<gvars, lvars, rvars, hvars, cvars>>

(***************************************************************************)
(* Text                                                                    *)
(***************************************************************************)
\* String.prototype.includes
Includes(s, p) ==
    \E i \in 1..(Len(s) - Len(p) + 1) : SubSeq(s, i, i + Len(p) - 1) = p

Digits == <<"0","1","2","3","4","5","6","7","8","9">>
IsDigit(c) == \E d \in 1..10 : Digits[d] = c
DigitValue(c) == (CHOOSE d \in 1..10 : Digits[d] = c) - 1

\* Number.prototype.toString of a non-negative integer
RECURSIVE NumberToString(_)
NumberToString(n) ==
    IF n < 10 THEN <<Digits[n + 1]>>
    ELSE NumberToString(n \div 10) \o <<Digits[(n % 10) + 1]>>

\* parseInt of a run of decimal digits
RECURSIVE ParseInt(_)
ParseInt(ds) ==
    IF ds = <<>> THEN 0
    ELSE 10 * ParseInt(SubSeq(ds, 1, Len(ds) - 1)) + DigitValue(ds[Len(ds)])

\* a match that takes the first run of digits of the message, after a ':' or not
HoursMatchAnyDigits(msg) ==
    LET starts == {i \in 1..Len(msg) : IsDigit(msg[i])}
    IN  IF starts = {} THEN <<>>
        ELSE LET i == CHOOSE k \in starts : \A j \in starts : k <= j
                 last == CHOOSE e \in i..Len(msg) :
                            /\ \A k \in i..e : IsDigit(msg[k])
                            /\ (e = Len(msg) \/ ~IsDigit(msg[e + 1]))
             IN  SubSeq(msg, i, last)

\* message.match(/:(\d+)/): the digits captured by the leftmost match, <<>> when none
HoursMatch(msg) ==
    LET starts == {i \in 1..Len(msg) : msg[i] = ":" /\ i < Len(msg) /\ IsDigit(msg[i + 1])}
    IN  IF starts = {} THEN <<>>
        ELSE LET i == CHOOSE k \in starts : \A j \in starts : k <= j
                 last == CHOOSE e \in (i + 1)..Len(msg) :
                            /\ \A k \in (i + 1)..e : IsDigit(msg[k])
                            /\ (e = Len(msg) \/ ~IsDigit(msg[e + 1]))
             IN  SubSeq(msg, i + 1, last)

\* "Token invalide"
MsgTokenInvalide == <<"T","o","k","e","n"," ","i","n","v","a","l","i","d","e">>
\* "Utilisateur non trouvé"
MsgUtilisateurNonTrouve == <<"U","t","i","l","i","s","a","t","e","u","r"," ","n","o","n"," ","t","r","o","u","v","é">>
\* AuthConstants.ERROR_MESSAGES.COMPTE_DESACTIVE of the server: the message of a
\* disabled account, which the denial taxonomy classifies as account-disabled,
\* "Compte désactivé"
COMPTE_DESACTIVE == <<"C","o","m","p","t","e"," ","d","é","s","a","c","t","i","v","é">>
\* "Accès admin non autorisé"
MsgAccesAdmin == <<"A","c","c","è","s"," ","a","d","m","i","n"," ","n","o","n"," ","a","u","t","o","r","i","s","é">>
\* "Échec de validation du token"
MsgEchecValidation == <<"É","c","h","e","c"," ","d","e"," ","v","a","l","i","d","a","t","i","o","n"," ","d","u"," ","t","o","k","e","n">>
\* "jwt expired"
MsgJwtExpired == <<"j","w","t"," ","e","x","p","i","r","e","d">>
\* "invalid signature"
MsgInvalidSignature == <<"i","n","v","a","l","i","d"," ","s","i","g","n","a","t","u","r","e">>
\* "jwt malformed"
MsgJwtMalformed == <<"j","w","t"," ","m","a","l","f","o","r","m","e","d">>
\* "No auth token"
MsgNoAuthToken == <<"N","o"," ","a","u","t","h"," ","t","o","k","e","n">>
\* "Failed to fetch": the message of the TypeError Chromium's fetch rejects with
\* when the transport fails
MsgFailedToFetch == <<"F","a","i","l","e","d"," ","t","o"," ","f","e","t","c","h">>
\* "NetworkError when attempting to fetch resource.": the same, Firefox
MsgNetworkError ==
    <<"N","e","t","w","o","r","k","E","r","r","o","r"," ","w","h","e","n"," ",
      "a","t","t","e","m","p","t","i","n","g"," ","t","o"," ","f","e","t","c","h"," ",
      "r","e","s","o","u","r","c","e",".">>
\* "Load failed": the same, Safari
MsgLoadFailed == <<"L","o","a","d"," ","f","a","i","l","e","d">>
\* 'Failed to fetch', the text refreshToken looks for
PatFailedToFetch == <<"F","a","i","l","e","d"," ","t","o"," ","f","e","t","c","h">>
\* "Compte désactivé"
PatCompteDesactive == <<"C","o","m","p","t","e"," ","d","é","s","a","c","t","i","v","é">>
\* "Mode maintenance"
PatModeMaintenance == <<"M","o","d","e"," ","m","a","i","n","t","e","n","a","n","c","e">>
\* "Déconnecté temporairement"
PatDeconnecteTemporairement == <<"D","é","c","o","n","n","e","c","t","é"," ","t","e","m","p","o","r","a","i","r","e","m","e","n","t">>
\* "invalid"
PatInvalid == <<"i","n","v","a","l","i","d">>
\* "expired"
PatExpired == <<"e","x","p","i","r","e","d">>
\* "/auth/logout"
PatAuthLogout == <<"/","a","u","t","h","/","l","o","g","o","u","t">>
\* "/api/auth/logout"
UrlLogout == <<"/","a","p","i","/","a","u","t","h","/","l","o","g","o","u","t">>
\* "/api/auth/logout-all"
UrlLogoutAll == <<"/","a","p","i","/","a","u","t","h","/","l","o","g","o","u","t","-","a","l","l">>
\* "/api/auth/me"
UrlMe == <<"/","a","p","i","/","a","u","t","h","/","m","e">>

(***************************************************************************)
(* Request Gate: inputs                                                    *)
(***************************************************************************)
Routes == {"logout", "logoutAll", "me"}

\* request.url of a route
RouteUrl(r) ==
    CASE r = "logout"    -> UrlLogout
      [] r = "logoutAll" -> UrlLogoutAll
      [] OTHER           -> UrlMe

\* The two copies of JwtAuthGuard in the repository.
GuardImpls == {"override", "shared"}

\* Authorization header: absent, "Bearer <jwt>", or another scheme ("Basic <x>").
HeaderKinds == {"none", "bearer", "other"}

\* What jsonwebtoken.verify makes of the bearer token, apart from its expiry.
JwtForms == {"ok", "malformed", "badsig"}

\* payload.sub: a string, or anything else (absent, a number)
SubKinds == {"string", "notString"}

\* payload.tokenType
TokenTypes == {"absent", "access", "refresh"}

\* usersService.findById(payload.sub): a user, null, or a rejected promise
LookupKinds == {"user", "null", "error"}

\* user.role together with the EMAIL_USER comparison of jwt.strategy.ts:43-48
AdminChecks == {"user", "adminMatch", "adminMismatch"}

\* An error other than UnauthorizedException raised underneath super.canActivate.
Faults == {"none", "TokenExpiredError", "JsonWebTokenError", "Error"}

Requests ==
    [impl : GuardImpls, route : Routes, header : HeaderKinds, cookie : BOOLEAN,
     form : JwtForms, expired : BOOLEAN, sub : SubKinds, tokenType : TokenTypes,
     lookup : LookupKinds, isActive : BOOLEAN, admin : AdminChecks, fault : Faults]

NoRequest ==
    [impl |-> "override", route |-> "me", header |-> "none", cookie |-> FALSE,
     form |-> "ok", expired |-> FALSE, sub |-> "string", tokenType |-> "absent",
     lookup |-> "user", isActive |-> TRUE, admin |-> "user", fault |-> "none"]

\* Fields that are never read are fixed, so that one request has one record.
WellFormedRequest(r) ==
    /\ (r.header # "bearer") =>
          /\ r.form = "ok" /\ ~r.expired /\ r.sub = "string"
          /\ r.tokenType = "absent" /\ r.lookup = "user"
          /\ r.isActive /\ r.admin = "user"
    /\ (r.form = "malformed") => (~r.expired /\ r.sub = "string" /\ r.tokenType = "absent")
    /\ (r.form # "ok" \/ r.expired \/ r.sub # "string") => r.lookup = "user"
    /\ (r.lookup # "user") => (r.isActive /\ r.admin = "user")

(***************************************************************************)
(* Request Gate: values                                                    *)
(***************************************************************************)
NoMessage == <<>>

\* new UnauthorizedException(message) / new UnauthorizedException({message, code})
Unauthorized(code, message, hours) ==
    [thrown |-> TRUE, unauthorized |-> TRUE, name |-> "UnauthorizedException",
     code |-> code, message |-> message, hours |-> hours]

\* any other Error, by its name
OtherError(name) ==
    [thrown |-> TRUE, unauthorized |-> FALSE, name |-> name,
     code |-> "", message |-> NoMessage, hours |-> -1]

Returned ==
    [thrown |-> FALSE, unauthorized |-> FALSE, name |-> "",
     code |-> "", message |-> NoMessage, hours |-> -1]

NoErr == [present |-> FALSE, message |-> NoMessage]
Err(message) == [present |-> TRUE, message |-> message]

NoInfo == [present |-> FALSE, name |-> "", message |-> NoMessage]
Info(name, message) == [present |-> TRUE, name |-> name, message |-> message]

NoUser == [present |-> FALSE, isActive |-> FALSE, tokenType |-> "", role |-> ""]
AuthUser(isActive, tokenType, role) ==
    [present |-> TRUE, isActive |-> isActive, tokenType |-> tokenType, role |-> role]

\* A decision of the gate: admit, or deny with the code of the exception thrown.
Admit == [admit |-> TRUE, code |-> "", hours |-> -1]
Deny(e) == [admit |-> FALSE, code |-> e.code, hours |-> e.hours]

\* The decision together with whether super.canActivate (token validation) ran.
Outcome(d, validated) ==
    [admit |-> d.admit, code |-> d.code, hours |-> d.hours, validated |-> validated]
NoDecision == [admit |-> FALSE, code |-> "none", hours |-> -1, validated |-> FALSE]

(***************************************************************************)
(* JwtStrategy.validate                                                    *)
(***************************************************************************)
\* tokenType: payload.tokenType || 'access'
ValidatedTokenType(r) == IF r.tokenType = "absent" THEN "access" ELSE r.tokenType

\* jwt.strategy.ts:22-75.  The result is what validate returns or throws.
JwtStrategyValidate(r) ==
    IF r.sub # "string" THEN
        [user |-> NoUser, err |-> Err(MsgTokenInvalide)]
    ELSE IF r.lookup = "error" THEN
        [user |-> NoUser, err |-> Err(MsgEchecValidation)]
    ELSE IF r.lookup = "null" THEN
        [user |-> NoUser, err |-> Err(MsgUtilisateurNonTrouve)]
    ELSE IF ~r.isActive THEN
        [user |-> NoUser, err |-> Err(COMPTE_DESACTIVE)]
    ELSE IF r.admin = "adminMismatch" THEN
        [user |-> NoUser, err |-> Err(MsgAccesAdmin)]
    ELSE
        [user |-> AuthUser(TRUE, ValidatedTokenType(r),
                           IF r.admin = "user" THEN "user" ELSE "admin"),
         err |-> NoErr]

(***************************************************************************)
(* passport-jwt as configured by the JwtStrategy constructor: the token is *)
(* taken from the bearer Authorization header only, its signature is       *)
(* verified before its expiry, and validate runs on the verified payload.  *)
(* The result is the (err, user, info) triple handed to handleRequest.     *)
(***************************************************************************)
PassportAuthenticate(r) ==
    IF r.header # "bearer" THEN
        [err |-> NoErr, user |-> NoUser, info |-> Info("Error", MsgNoAuthToken)]
    ELSE IF r.form = "malformed" THEN
        [err |-> NoErr, user |-> NoUser, info |-> Info("JsonWebTokenError", MsgJwtMalformed)]
    ELSE IF r.form = "badsig" THEN
        [err |-> NoErr, user |-> NoUser, info |-> Info("JsonWebTokenError", MsgInvalidSignature)]
    ELSE IF r.expired THEN
        [err |-> NoErr, user |-> NoUser, info |-> Info("TokenExpiredError", MsgJwtExpired)]
    ELSE
        LET v == JwtStrategyValidate(r)
        IN  [err |-> v.err, user |-> v.user, info |-> NoInfo]

(***************************************************************************)
(* JwtAuthGuard.handleRequest (the same text in both copies)               *)
(***************************************************************************)
HandleRequestHours(message) ==
    LET m == HoursMatch(message)
    IN  IF m = <<>> THEN 24 ELSE ParseInt(m)

handleRequest(err, user, info) ==
    IF err.present \/ ~user.present THEN
        IF info.present /\ info.name = "TokenExpiredError" THEN
            Unauthorized("SESSION_EXPIRED", NoMessage, -1)
        ELSE IF info.present /\ info.name = "JsonWebTokenError" THEN
            Unauthorized("INVALID_TOKEN", NoMessage, -1)
        ELSE IF err.present /\ Includes(err.message, PatCompteDesactive) THEN
            Unauthorized("ACCOUNT_DISABLED", NoMessage, -1)
        ELSE IF err.present /\ Includes(err.message, PatModeMaintenance) THEN
            Unauthorized("MAINTENANCE_MODE", NoMessage, -1)
        ELSE IF err.present /\ Includes(err.message, PatDeconnecteTemporairement) THEN
            Unauthorized("TEMPORARY_LOGOUT", NoMessage, HandleRequestHours(err.message))
        ELSE IF info.present /\ (Includes(info.message, PatInvalid)
                                 \/ Includes(info.message, PatExpired)) THEN
            Unauthorized("SESSION_INVALID", NoMessage, -1)
        ELSE
            Unauthorized("UNAUTHORIZED", NoMessage, -1)
    ELSE IF ~user.isActive THEN
        Unauthorized("ACCOUNT_DISABLED", NoMessage, -1)
    ELSE IF user.tokenType # "" /\ user.tokenType # "access" THEN
        Unauthorized("INVALID_TOKEN_TYPE", NoMessage, -1)
    ELSE
        Returned

\* AuthGuard("jwt").canActivate: passport, then handleRequest; true or an exception.
SuperCanActivate(r) ==
    IF r.fault # "none" THEN OtherError(r.fault)
    ELSE LET p == PassportAuthenticate(r)
         IN  handleRequest(p.err, p.user, p.info)

(***************************************************************************)
(* JwtAuthGuard.canActivate                                                *)
(***************************************************************************)
\* const token = request.headers.authorization?.split(" ")[1] || request.cookies?.access_token
TokenPresent(r) == r.header # "none" \/ r.cookie

\* request.url.includes('/auth/logout')
IsLogoutUrl(r) == Includes(RouteUrl(r.route), PatAuthLogout)

\* the catch block of canActivate, copy with the logout override
CatchOverride(r, e) ==
    IF e.unauthorized THEN
        IF IsLogoutUrl(r) THEN Admit ELSE Deny(e)
    ELSE IF e.name = "TokenExpiredError" THEN
        IF ~IsLogoutUrl(r) THEN Deny(Unauthorized("SESSION_EXPIRED", NoMessage, -1)) ELSE Admit
    ELSE IF e.name = "JsonWebTokenError" THEN
        IF ~IsLogoutUrl(r) THEN Deny(Unauthorized("INVALID_TOKEN", NoMessage, -1)) ELSE Admit
    ELSE IF IsLogoutUrl(r) THEN Admit
    ELSE Deny(Unauthorized("AUTH_ERROR", NoMessage, -1))

\* canActivate, copy with the logout override
canActivate(r) ==
    IF IsLogoutUrl(r) THEN
        IF ~TokenPresent(r) THEN Outcome(Admit, FALSE)
        ELSE LET s == SuperCanActivate(r)
             IN  IF s.thrown THEN Outcome(Admit, TRUE)   \* inner catch: return true
                 ELSE Outcome(Admit, TRUE)               \* return result as boolean
    ELSE IF ~TokenPresent(r) THEN
        Outcome(CatchOverride(r, Unauthorized("AUTH_REQUIRED", NoMessage, -1)), FALSE)
    ELSE LET s == SuperCanActivate(r)
         IN  Outcome(IF s.thrown THEN CatchOverride(r, s) ELSE Admit, TRUE)

\* the catch block of canActivate, backend/src/shared/guards
CatchShared(e) ==
    IF e.unauthorized THEN Deny(e)
    ELSE IF e.name = "TokenExpiredError" THEN Deny(Unauthorized("SESSION_EXPIRED", NoMessage, -1))
    ELSE IF e.name = "JsonWebTokenError" THEN Deny(Unauthorized("INVALID_TOKEN", NoMessage, -1))
    ELSE Deny(Unauthorized("AUTH_ERROR", NoMessage, -1))

\* canActivate, backend/src/shared/guards
canActivateShared(r) ==
    IF ~TokenPresent(r) THEN
        Outcome(CatchShared(Unauthorized("AUTH_REQUIRED", NoMessage, -1)), FALSE)
    ELSE LET s == SuperCanActivate(r)
         IN  Outcome(IF s.thrown THEN CatchShared(s) ELSE Admit, TRUE)

GateDecision(r) ==
    IF r.impl = "override" THEN canActivate(r) ELSE canActivateShared(r)


(***************************************************************************)
(* Request Gate: the state machine                                         *)
(***************************************************************************)
\* A request reaches the guard.
GateArrive ==
    /\ gphase = "idle"
    /\ \E r \in Requests :
          /\ WellFormedRequest(r)
          /\ greq' = r
    /\ gphase' = "pending"
    /\ gdec' = NoDecision
    /\ UNCHANGED <<lvars, rvars, hvars>>
    /\ UNCHANGED cvars

\* canActivate runs to its end: true, or an UnauthorizedException.
GateCanActivate ==
    /\ gphase = "pending"
    /\ gdec' = GateDecision(greq)
    /\ gphase' = "decided"
    /\ UNCHANGED greq
    /\ UNCHANGED <<lvars, rvars, hvars>>
    /\ UNCHANGED cvars

\* The response is sent; the guard keeps nothing of the request.
GateRespond ==
    /\ gphase = "decided"
    /\ gphase' = "idle"
    /\ greq' = NoRequest
    /\ gdec' = NoDecision
    /\ UNCHANGED <<lvars, rvars, hvars>>
    /\ UNCHANGED cvars

GateInit ==
    /\ gphase = "idle"
    /\ greq = NoRequest
    /\ gdec = NoDecision

(***************************************************************************)
(* JwtAuthGuard.handleRequest called with an error of the session checks   *)
(***************************************************************************)
\* What follows the constant in the message of a temporarily disconnected
\* account, with the hours it reports (-1 when it reports none): nothing,
\* ":5", ":12", ":168", ":007", ":12:30", " 3:48", ":h:7", " 6h",
\* ":9h restantes".
LockedTails ==
    { [tail |-> <<>>, hours |-> -1],
      [tail |-> <<":","5">>, hours |-> 5],
      [tail |-> <<":","1","2">>, hours |-> 12],
      [tail |-> <<":","1","6","8">>, hours |-> 168],
      [tail |-> <<":","0","0","7">>, hours |-> 7],
      [tail |-> <<":","1","2",":","3","0">>, hours |-> 12],
      [tail |-> <<" ","3",":","4","8">>, hours |-> 48],
      [tail |-> <<":","h",":","7">>, hours |-> 7],
      [tail |-> <<" ","6","h">>, hours |-> -1],
      [tail |-> <<":","9","h"," ","r","e","s","t","a","n","t","e","s">>, hours |-> 9] }

\* the errors passport hands to handleRequest as err: a temporarily
\* disconnected account, a disabled account, the maintenance mode
HandleErrors ==
    {[message |-> PatDeconnecteTemporairement \o t.tail, hours |-> t.hours] : t \in LockedTails}
        \cup {[message |-> m, hours |-> -1] : m \in {PatCompteDesactive, PatModeMaintenance}}

NoHandleError == [message |-> NoMessage, hours |-> -1]

\* passport calls handleRequest(err, false, undefined)
HandleArrive ==
    /\ hphase = "idle"
    /\ \E e \in HandleErrors : herr' = e
    /\ hphase' = "pending"
    /\ hexc' = Returned
    /\ UNCHANGED <<gvars, lvars, rvars>>
    /\ UNCHANGED cvars

\* handleRequest runs to its throw
HandleThrow ==
    /\ hphase = "pending"
    /\ hexc' = handleRequest(Err(herr.message), NoUser, NoInfo)
    /\ hphase' = "thrown"
    /\ UNCHANGED herr
    /\ UNCHANGED <<gvars, lvars, rvars>>
    /\ UNCHANGED cvars

\* the response is sent; the guard keeps nothing of the error
HandleRespond ==
    /\ hphase = "thrown"
    /\ hphase' = "idle"
    /\ herr' = NoHandleError
    /\ hexc' = Returned
    /\ UNCHANGED <<gvars, lvars, rvars>>
    /\ UNCHANGED cvars

HandleInit ==
    /\ hphase = "idle"
    /\ herr = NoHandleError
    /\ hexc = Returned

(***************************************************************************)
(* Request Gate: concurrent requests                                       *)
(*                                                                         *)
(* canActivate is an async method of a singleton: several calls are in     *)
(* progress at once, each suspended at `await super.canActivate(context)`  *)
(* and, inside it, at `await this.usersService.findById(payload.sub)`,     *)
(* while an administrator enables or disables the account.                 *)
(***************************************************************************)
MaxConcurrent == 2      \* calls of canActivate in progress at the same time

Slots == 1..MaxConcurrent

\* the requests sent concurrently: to the logout route or a protected one,
\* without token or with the bearer token of the account, expired or not
ConcurrentRequests ==
    {[NoRequest EXCEPT !.impl = g, !.route = rt, !.header = h, !.expired = e] :
        g \in GuardImpls, rt \in {"logout", "me"},
        <<h, e>> \in {<<"none", FALSE>>, <<"bearer", FALSE>>, <<"bearer", TRUE>>}}

\* findById is reached: the bearer token is verified and has not expired
LooksUpUser(r) == r.header = "bearer" /\ r.form = "ok" /\ ~r.expired /\ r.sub = "string"

IdleSlot == [phase |-> "idle", req |-> NoRequest, looked |-> FALSE, active |-> TRUE,
             dec |-> NoDecision]

\* a guard that keeps the request of the call that entered last in a field
GuardRequestShared(i) == slots[lastArrived].req

\* const request = context.switchToHttp().getRequest(): the request of this call
GuardRequest(i) == slots[i].req

\* a request reaches the guard while other calls are in progress
ConcurrentArrive ==
    /\ \E i \in Slots, r \in ConcurrentRequests :
          /\ slots[i].phase = "idle"
          /\ slots' = [slots EXCEPT ![i] = [IdleSlot EXCEPT !.phase = "arrived", !.req = r]]
          /\ lastArrived' = i
    /\ UNCHANGED accountActive
    /\ UNCHANGED <<gvars, lvars, hvars>>
    /\ UNCHANGED cvars

\* super.canActivate up to the answer of findById: the user as it is now
ConcurrentLookup ==
    /\ \E i \in Slots :
          /\ slots[i].phase = "arrived"
          /\ slots' = [slots EXCEPT ![i] =
                          [@ EXCEPT !.phase = "validated",
                                    !.looked = LooksUpUser(GuardRequest(i)),
                                    !.active = IF LooksUpUser(GuardRequest(i))
                                               THEN accountActive ELSE TRUE]]
    /\ UNCHANGED <<accountActive, lastArrived>>
    /\ UNCHANGED <<gvars, lvars, hvars>>
    /\ UNCHANGED cvars

\* canActivate runs to its end with the user it was given
ConcurrentDecide ==
    /\ \E i \in Slots :
          /\ slots[i].phase = "validated"
          /\ slots' = [slots EXCEPT ![i] =
                          [@ EXCEPT !.phase = "decided",
                                    !.dec = GateDecision([GuardRequest(i) EXCEPT
                                                             !.isActive = slots[i].active])]]
    /\ UNCHANGED <<accountActive, lastArrived>>
    /\ UNCHANGED <<gvars, lvars, hvars>>
    /\ UNCHANGED cvars

\* the response of one call is sent
ConcurrentRespond ==
    /\ \E i \in Slots :
          /\ slots[i].phase = "decided"
          /\ slots' = [slots EXCEPT ![i] = IdleSlot]
    /\ UNCHANGED <<accountActive, lastArrived>>
    /\ UNCHANGED <<gvars, lvars, hvars>>
    /\ UNCHANGED cvars

\* an administrator disables or enables the account
AccountToggle ==
    /\ accountActive' = ~accountActive
    /\ UNCHANGED <<slots, lastArrived>>
    /\ UNCHANGED <<gvars, lvars, hvars>>
    /\ UNCHANGED cvars

ConcurrentInit ==
    /\ slots = [i \in Slots |-> IdleSlot]
    /\ accountActive = TRUE
    /\ lastArrived = 1

(***************************************************************************)
(* Credential Validator: LocalStrategy.validate                            *)
(***************************************************************************)
\* AuthConstants.ERROR_MESSAGES.PASSWORD_RESET_REQUIRED, "PASSWORD RESET REQUIRED"
PASSWORD_RESET_REQUIRED ==
    <<"P","A","S","S","W","O","R","D"," ","R","E","S","E","T"," ","R","E","Q","U","I","R","E",
      "D">>
\* AuthConstants.ERROR_MESSAGES.MAINTENANCE_MODE, "Mode maintenance"
MAINTENANCE_MODE == <<"M","o","d","e"," ","m","a","i","n","t","e","n","a","n","c","e">>
\* AuthConstants.ERROR_MESSAGES.COMPTE_TEMPORAIREMENT_DECONNECTE, "Déconnecté temporairement"
COMPTE_TEMPORAIREMENT_DECONNECTE ==
    <<"D","é","c","o","n","n","e","c","t","é"," ","t","e","m","p","o","r","a","i","r","e","m",
      "e","n","t">>
\* "INVALID_CREDENTIALS"
CodeInvalidCredentials ==
    <<"I","N","V","A","L","I","D","_","C","R","E","D","E","N","T","I","A","L","S">>
\* "AUTHENTICATION_ERROR"
CodeAuthenticationError ==
    <<"A","U","T","H","E","N","T","I","C","A","T","I","O","N","_","E","R","R","O","R">>
\* "AUTH_SYSTEM_ERROR"
CodeAuthSystemError == <<"A","U","T","H","_","S","Y","S","T","E","M","_","E","R","R","O","R">>
\* "ACCOUNT_LOCKED", a code of an error that AuthService has already formatted
CodeAccountLocked == <<"A","C","C","O","U","N","T","_","L","O","C","K","E","D">>
\* "Email ou mot de passe incorrect"
MsgEmailOuMotDePasse ==
    <<"E","m","a","i","l"," ","o","u"," ","m","o","t"," ","d","e"," ","p","a","s","s","e"," ",
      "i","n","c","o","r","r","e","c","t">>
\* "Un mot de passe doit être défini pour ce compte"
MsgMotDePasseADefinir ==
    <<"U","n"," ","m","o","t"," ","d","e"," ","p","a","s","s","e"," ","d","o","i","t"," ","ê",
      "t","r","e"," ","d","é","f","i","n","i"," ","p","o","u","r"," ","c","e"," ","c","o","m",
      "p","t","e">>
\* "Votre compte a été désactivé"
MsgCompteDesactive ==
    <<"V","o","t","r","e"," ","c","o","m","p","t","e"," ","a"," ","é","t","é"," ","d","é","s",
      "a","c","t","i","v","é">>
\* "Votre compte est temporairement déconnecté ("
MsgTemporairementPrefix ==
    <<"V","o","t","r","e"," ","c","o","m","p","t","e"," ","e","s","t"," ","t","e","m","p","o",
      "r","a","i","r","e","m","e","n","t"," ","d","é","c","o","n","n","e","c","t","é"," ","(">>
\* "h restantes)"
MsgTemporairementSuffix == <<"h"," ","r","e","s","t","a","n","t","e","s",")">>
\* "Système en maintenance"
MsgSystemeEnMaintenance ==
    <<"S","y","s","t","è","m","e"," ","e","n"," ","m","a","i","n","t","e","n","a","n","c","e">>
\* "Erreur d'authentification"
MsgErreurAuthentification ==
    <<"E","r","r","e","u","r"," ","d","'","a","u","t","h","e","n","t","i","f","i","c","a","t",
      "i","o","n">>
\* "Trop de tentatives", the message of the formatted error
MsgTropDeTentatives == <<"T","r","o","p"," ","d","e"," ","t","e","n","t","a","t","i","v","e","s">>
\* "Compte verrouillé après 5 échecs", a message validate has no rule for
MsgCompteVerrouille ==
    <<"C","o","m","p","t","e"," ","v","e","r","r","o","u","i","l","l","é"," ","a","p","r","è",
      "s"," ","5"," ","é","c","h","e","c","s">>
\* "Cast to ObjectId failed for value x at path _id", the message of a database error
MsgCastError ==
    <<"C","a","s","t"," ","t","o"," ","O","b","j","e","c","t","I","d"," ","f","a","i","l","e",
      "d"," ","f","o","r"," ","v","a","l","u","e"," ","x"," ","a","t"," ","p","a","t","h"," ",
      "_","i","d">>
\* "email.toLowerCase is not a function", the TypeError of a non-string email
MsgNotAFunction ==
    <<"e","m","a","i","l",".","t","o","L","o","w","e","r","C","a","s","e"," ","i","s"," ","n",
      "o","t"," ","a"," ","f","u","n","c","t","i","o","n">>
\* "connect ETIMEDOUT", the message of a network error underneath the user lookup
MsgTimedOut == <<"c","o","n","n","e","c","t"," ","E","T","I","M","E","D","O","U","T">>

\* String.prototype.toLowerCase, on the letters that occur in Emails
LowerChar(c) ==
    CASE c = "A" -> "a"
      [] c = "B" -> "b"
      [] OTHER -> c
ToLowerCase(s) == [i \in 1..Len(s) |-> LowerChar(s[i])]

\* String.prototype.trim
RECURSIVE Trim(_)
Trim(s) ==
    IF s = <<>> THEN s
    ELSE IF Head(s) = " " THEN Trim(Tail(s))
    ELSE IF s[Len(s)] = " " THEN Trim(SubSeq(s, 1, Len(s) - 1))
    ELSE s

\* the email field of the login form as passport-local hands it to validate
Emails ==
    { <<"a","@","b">>, <<"A","@","b">>, <<" ","a","@","B">>, <<"a","@","b"," ">> }

\* hours a temporarily disconnected account has left; -1 when upstream does not say
LockedHours == {-1, 5, 12, 168}

\* the message of the error upstream raises for a temporarily disconnected
\* account: the constant, followed by ":<hours>" when the hours are reported
LockedMessage(h) ==
    IF h < 0 THEN COMPTE_TEMPORAIREMENT_DECONNECTE
    ELSE COMPTE_TEMPORAIREMENT_DECONNECTE \o <<":">> \o NumberToString(h)

\* error.message of the UnauthorizedException upstream raises for an account state
StateMessage(kind) ==
    CASE kind = "resetRequired" -> PASSWORD_RESET_REQUIRED
      [] kind = "disabled" -> COMPTE_DESACTIVE
      [] kind = "maintenance" -> MAINTENANCE_MODE
      [] kind = "unclassified" -> MsgCompteVerrouille
      [] OTHER -> NoMessage

\* What authService.validateUser does: it returns a user or null, throws an
\* UnauthorizedException bearing a message (an account state, or a message
\* validate has no rule for) or one already formatted with a code, or fails
\* with another error.
UpstreamOutcomes ==
    {[kind |-> k, hours |-> -1, code |-> NoMessage, message |-> StateMessage(k)] :
        k \in {"user", "null", "resetRequired", "disabled", "maintenance", "unclassified"}}
    \cup {[kind |-> "locked", hours |-> h, code |-> NoMessage, message |-> LockedMessage(h)] :
             h \in LockedHours}
    \cup {[kind |-> "locked", hours |-> t.hours, code |-> NoMessage,
            message |-> COMPTE_TEMPORAIREMENT_DECONNECTE \o t.tail] : t \in LockedTails}
    \cup {[kind |-> "coded", hours |-> -1, code |-> c, message |-> MsgTropDeTentatives] :
             c \in {CodeAccountLocked, CodeInvalidCredentials}}
    \cup {[kind |-> "fault", hours |-> -1, code |-> NoMessage, message |-> m] :
             m \in {MsgCastError, MsgTimedOut}}

\* validateUser is not reached
NoUpstream == [kind |-> "none", hours |-> -1, code |-> NoMessage, message |-> NoMessage]

\* a login attempt: the email is a string, or another JSON value (an object)
LocalRequests ==
    {[emailKind |-> "string", email |-> e, up |-> u] : e \in Emails, u \in UpstreamOutcomes}
    \cup {[emailKind |-> "object", email |-> NoMessage, up |-> NoUpstream]}

NoLocalRequest == [emailKind |-> "string", email |-> NoMessage, up |-> NoUpstream]

\* validate returned the user; `email` is what validateUser was called with
LocalReturned(email) ==
    [thrown |-> FALSE, code |-> NoMessage, message |-> NoMessage, hours |-> -1,
     email |-> email]

\* validate threw new UnauthorizedException({message, code, remainingHours})
LocalUnauthorized(code, message, hours, email) ==
    [thrown |-> TRUE, code |-> code, message |-> message, hours |-> hours, email |-> email]

NoLocalResult == LocalReturned(NoMessage)

\* hoursMatch ? hoursMatch[1] : "24"
LocalHours(message) ==
    LET m == HoursMatch(message)
    IN  IF m = <<>> THEN <<"2","4">> ELSE m

\* a classification that reports 24 hours for every temporarily disconnected account
ClassifyMessageWithoutHours(message, email) ==
    IF message = PASSWORD_RESET_REQUIRED THEN
        LocalUnauthorized(PASSWORD_RESET_REQUIRED, MsgMotDePasseADefinir, -1, email)
    ELSE IF message = COMPTE_DESACTIVE THEN
        LocalUnauthorized(COMPTE_DESACTIVE, MsgCompteDesactive, -1, email)
    ELSE IF Includes(message, COMPTE_TEMPORAIREMENT_DECONNECTE) THEN
        LocalUnauthorized(COMPTE_TEMPORAIREMENT_DECONNECTE,
                          MsgTemporairementPrefix \o <<"2","4">> \o MsgTemporairementSuffix,
                          24, email)
    ELSE IF message = MAINTENANCE_MODE THEN
        LocalUnauthorized(MAINTENANCE_MODE, MsgSystemeEnMaintenance, -1, email)
    ELSE
        LocalUnauthorized(CodeAuthenticationError, message, -1, email)

\* the catch of validate for an UnauthorizedException that carries no code:
\* classification by error.message
ClassifyMessage(message, email) ==
    IF message = PASSWORD_RESET_REQUIRED THEN
        LocalUnauthorized(PASSWORD_RESET_REQUIRED, MsgMotDePasseADefinir, -1, email)
    ELSE IF message = COMPTE_DESACTIVE THEN
        LocalUnauthorized(COMPTE_DESACTIVE, MsgCompteDesactive, -1, email)
    ELSE IF Includes(message, COMPTE_TEMPORAIREMENT_DECONNECTE) THEN
        LocalUnauthorized(COMPTE_TEMPORAIREMENT_DECONNECTE,
                          MsgTemporairementPrefix \o LocalHours(message)
                              \o MsgTemporairementSuffix,
                          ParseInt(LocalHours(message)), email)
    ELSE IF message = MAINTENANCE_MODE THEN
        LocalUnauthorized(MAINTENANCE_MODE, MsgSystemeEnMaintenance, -1, email)
    ELSE
        LocalUnauthorized(CodeAuthenticationError, message, -1, email)

\* LocalStrategy.validate(email, password)
LocalStrategyValidate(r) ==
    IF r.emailKind # "string" THEN
        \* email.toLowerCase is not a function: an unexpected error
        LocalUnauthorized(CodeAuthSystemError, MsgErreurAuthentification, -1, NoMessage)
    ELSE
        LET normalizedEmail == Trim(ToLowerCase(r.email))
        IN  CASE r.up.kind = "user" -> LocalReturned(normalizedEmail)
              [] r.up.kind = "null" ->
                   LocalUnauthorized(CodeInvalidCredentials, MsgEmailOuMotDePasse, -1,
                                     normalizedEmail)
              [] r.up.kind = "coded" ->
                   LocalUnauthorized(r.up.code, r.up.message, -1, normalizedEmail)
              [] r.up.kind = "fault" ->
                   LocalUnauthorized(CodeAuthSystemError, MsgErreurAuthentification, -1,
                                     normalizedEmail)
              [] OTHER -> ClassifyMessage(r.up.message, normalizedEmail)

(***************************************************************************)
(* Credential Validator: the state machine                                 *)
(***************************************************************************)
\* passport-local calls validate for a login attempt
LocalArrive ==
    /\ vphase = "idle"
    /\ \E r \in LocalRequests : vreq' = r
    /\ vphase' = "pending"
    /\ vres' = NoLocalResult
    /\ UNCHANGED <<gvars, rvars, hvars>>
    /\ UNCHANGED cvars

\* validate runs to its end: the user, or an UnauthorizedException
LocalValidate ==
    /\ vphase = "pending"
    /\ vres' = LocalStrategyValidate(vreq)
    /\ vphase' = "decided"
    /\ UNCHANGED vreq
    /\ UNCHANGED <<gvars, rvars, hvars>>
    /\ UNCHANGED cvars

\* the response is sent; the strategy keeps nothing of the attempt
LocalRespond ==
    /\ vphase = "decided"
    /\ vphase' = "idle"
    /\ vreq' = NoLocalRequest
    /\ vres' = NoLocalResult
    /\ UNCHANGED <<gvars, rvars, hvars>>
    /\ UNCHANGED cvars

LocalInit ==
    /\ vphase = "idle"
    /\ vreq = NoLocalRequest
    /\ vres = NoLocalResult

(***************************************************************************)
(* Session Client: constants (minutes)                                     *)
(***************************************************************************)
ACCESS_TOKEN_EXPIRATION == 15
PREVENTIVE_REFRESH == 2
MAX_SESSION_DURATION == 30
SESSION_CHECK_PERIOD == 5

\* ---- bounds of the model ----
MaxElapsed == 5         \* minutes of the page's life that are explored
MaxInFlight == 2        \* requests awaiting an answer at the same time
MaxCalls == 3           \* calls of login, register, refreshToken and logout by consumers
MaxTimers == 2          \* size of the browser's timeout table, and of its interval table
PageLoadTime == 32      \* Date.now() when the page is loaded (an old session began at 0)

Roles == {"admin", "user"}
NoUsr == "none"

\* Tokens by their decoded claims {exp, role}.
NoTok == [t |-> "none", exp |-> 0, role |-> NoUsr]
BadTok == [t |-> "bad", exp |-> 0, role |-> NoUsr]     \* a string jwtDecode rejects
Jwt(e, role) == [t |-> "jwt", exp |-> e, role |-> role]

\* the token the server mints at time t for an account of the given role
IssueToken(t, role) == Jwt(t + ACCESS_TOKEN_EXPIRATION, role)

\* the role in the profile GET /api/auth/me returns for the bearer of tok
ProfileRole(tok) == IF tok.role = NoUsr THEN "user" ELSE tok.role

NoStart == <<>>
NullRef == 0
\* a ref still holding the id of a timer that fired or was cleared
StaleRef == -1
DeadRef(ref) == IF ref = NullRef THEN NullRef ELSE StaleRef

LOGIN == "/connexion"
HOME == "/"
ADMIN_DASHBOARD == "/gestionnaire/statistiques"

\* clearTimeout(id) / clearInterval(id)
ClearTimer(table, ref) == {x \in table : x.id # ref}

TimerIds(table) == {x.id : x \in table}
FreshId(table) ==
    IF \E i \in 1..MaxTimers : i \notin TimerIds(table)
    THEN CHOOSE i \in 1..MaxTimers :
            i \notin TimerIds(table) /\ \A j \in 1..(i - 1) : j \in TimerIds(table)
    ELSE MaxTimers + 1

\* The mutable browser state a handler reads and writes.
Cur ==
    [lsToken |-> ls_token, lsUser |-> ls_user, lsStart |-> ls_start,
     token |-> st_token, user |-> st_user, isLoading |-> isLoading, error |-> error,
     timeouts |-> timeouts, intervals |-> intervals,
     rref |-> refreshTimeoutRef, iref |-> sessionCheckIntervalRef,
     location |-> location, toasts |-> toasts, notified |-> notified,
     cancelled |-> cancelled, by |-> installedBy]

Commit(S) ==
    /\ ls_token' = S.lsToken
    /\ ls_user' = S.lsUser
    /\ ls_start' = S.lsStart
    /\ st_token' = S.token
    /\ st_user' = S.user
    /\ isLoading' = S.isLoading
    /\ error' = S.error
    /\ timeouts' = S.timeouts
    /\ intervals' = S.intervals
    /\ refreshTimeoutRef' = S.rref
    /\ sessionCheckIntervalRef' = S.iref
    /\ location' = S.location
    /\ toasts' = S.toasts
    /\ notified' = S.notified
    /\ cancelled' = S.cancelled
    /\ installedBy' = S.by

\* a handler starts: nothing shown yet
Begin == [Cur EXCEPT !.toasts = {}, !.location = "", !.notified = "none",
                    !.cancelled = FALSE]

\* clearTimeout(refreshTimeoutRef.current) cancels a callback that was pending
CancelsPending(S) == S.cancelled \/ (\E x \in S.timeouts : x.id = S.rref)

Toast(S, m) == [S EXCEPT !.toasts = @ \cup {m}]
Navigate(S, path) == [S EXCEPT !.location = path]

(***************************************************************************)
(* Session Client: the functions of AuthProvider                           *)
(***************************************************************************)
\* a teardown that clears the storage and the state but leaves the timers running
cleanupAuthDataKeepingTimers(S) ==
    [S EXCEPT !.lsToken = NoTok, !.lsUser = NoUsr, !.lsStart = NoStart,
              !.token = NoTok, !.user = NoUsr, !.error = "none", !.by = 0]

cleanupAuthData(S) ==
    [S EXCEPT !.lsToken = NoTok, !.lsUser = NoUsr, !.lsStart = NoStart,
              !.token = NoTok, !.user = NoUsr, !.error = "none", !.by = 0,
              !.timeouts = ClearTimer(S.timeouts, S.rref), !.rref = NullRef,
              !.cancelled = CancelsPending(S),
              !.intervals = ClearTimer(S.intervals, S.iref), !.iref = NullRef]

\* setupTokenRefresh without its clearTimeout of the timer pending before
setupTokenRefreshWithoutClear(S, exp, t) ==
    LET refreshTime == exp - t - PREVENTIVE_REFRESH
        id == FreshId(S.timeouts)
    IN  IF refreshTime > 0
        THEN [S EXCEPT !.timeouts = @ \cup {[id |-> id, at |-> t + refreshTime]},
                       !.rref = id]
        ELSE S

\* setupTokenRefresh(exp) called at time t
setupTokenRefresh(S, exp, t) ==
    LET cleared == ClearTimer(S.timeouts, S.rref)
        refreshTime == exp - t - PREVENTIVE_REFRESH
        id == FreshId(cleared)
    IN  IF refreshTime > 0
        THEN [S EXCEPT !.timeouts = cleared \cup {[id |-> id, at |-> t + refreshTime]},
                       !.rref = id, !.cancelled = CancelsPending(S)]
        ELSE [S EXCEPT !.timeouts = cleared, !.rref = DeadRef(S.rref),
                       !.cancelled = CancelsPending(S)]

\* the fire-and-forget POST /api/auth/logout of logout(), whose closure holds `closed`
LogoutNotification(S, closed) ==
    IF closed = NoTok THEN "omitted"
    ELSE IF closed = S.lsToken THEN "current"
    ELSE "stale"

\* a logout that clears the session and stays on the page
logoutWithoutRedirect(S, closed) ==
    LET S1 == [S EXCEPT !.notified = LogoutNotification(S, closed)]
    IN  Toast(cleanupAuthData(S1), "LOGOUT_SUCCESS")

\* logout() of the render whose access_token is `closed`
logout(S, closed) ==
    LET S1 == [S EXCEPT !.notified = LogoutNotification(S, closed)]
    IN  Toast(Navigate(cleanupAuthData(S1), LOGIN), "LOGOUT_SUCCESS")

\* fetchUserData resolved: setUser + localStorage user_data
StoreProfile(S, role) == [S EXCEPT !.user = role, !.lsUser = role]

\* the part of checkAuth that runs before its first await; TRUE when it goes on to fetch
CheckAuthFetches(S, t) ==
    /\ S.lsToken # NoTok
    /\ S.lsToken # BadTok
    /\ ~(S.lsToken.exp < t)

CheckAuthNoFetch(S, t) ==
    IF S.lsToken = NoTok
    THEN [S EXCEPT !.isLoading = FALSE]
    ELSE [cleanupAuthData(S) EXCEPT !.isLoading = FALSE]

\* sessionCheckIntervalRef.current = setInterval(..., 5 min)
StartInterval(S, t) ==
    LET id == FreshId(S.intervals)
    IN  [S EXCEPT !.intervals = @ \cup {[id |-> id, next |-> t + SESSION_CHECK_PERIOD]},
                  !.iref = id]

\* the cleanup function returned by the effect
EffectCleanup(S) ==
    [S EXCEPT !.timeouts = ClearTimer(S.timeouts, S.rref), !.rref = DeadRef(S.rref),
              !.cancelled = CancelsPending(S),
              !.intervals = ClearTimer(S.intervals, S.iref), !.iref = DeadRef(S.iref)]

(***************************************************************************)
(* Session Client: requests in flight                                      *)
(***************************************************************************)
Put(bag, x) == bag (+) SetToBag({x})
Take(bag, x) == bag (-) SetToBag({x})

InFlight ==
    BagCardinality(authReqs) + BagCardinality(refreshReqs)
        + BagCardinality(refreshFetches) + BagCardinality(checkFetches)

\* the effect's cleanup sets isMounted = false in the closure of every earlier run
Unmounted(bag) ==
    LET Off(c) == [c EXCEPT !.mounted = FALSE]
        On(c) == [c EXCEPT !.mounted = TRUE]
    IN  [d \in {Off(c) : c \in BagToSet(bag)} |-> CopiesIn(d, bag) + CopiesIn(On(d), bag)]

(***************************************************************************)
(* Session Client: the state after construction                            *)
(***************************************************************************)
\* What a page load may find in localStorage: nothing, a live session, or a
\* session whose token has expired.
InitStorages ==
    { [token |-> NoTok, user |-> NoUsr, start |-> NoStart],
      \* an old session whose token was renewed not long ago
      [token |-> Jwt(PageLoadTime + 8, "user"), user |-> "user", start |-> NumberToString(0)],
      \* a young session whose token is about to expire
      [token |-> Jwt(PageLoadTime + 3, "user"), user |-> "user",
       start |-> NumberToString(PageLoadTime - 2)],
      \* a session whose token expires within the preventive window
      [token |-> Jwt(PageLoadTime + 1, "user"), user |-> "user",
       start |-> NumberToString(PageLoadTime - 14)],
      \* a session whose token has expired
      [token |-> Jwt(PageLoadTime - 1, "user"), user |-> "user", start |-> NumberToString(0)] }

\* What a page load may find besides: an access_token entry that is no JWT
\* (localStorage is written by other scripts of the origin and by the user)
UndecodableStorage ==
    [token |-> BadTok, user |-> "user", start |-> NumberToString(PageLoadTime - 2)]

\* the provider as constructed on a page whose localStorage is one of `storages`
ClientInitWith(storages) ==
    /\ now = PageLoadTime
    /\ \E s \in storages :
          /\ ls_token = s.token /\ ls_user = s.user /\ ls_start = s.start
          /\ st_token = s.token /\ st_user = s.user
          /\ mountToken = s.token /\ renderedToken = s.token
    /\ isLoading = TRUE
    /\ error = "none"
    /\ phase = "constructed"
    /\ timeouts = {}
    /\ intervals = {}
    /\ refreshTimeoutRef = NullRef
    /\ sessionCheckIntervalRef = NullRef
    /\ authReqs = EmptyBag
    /\ refreshReqs = EmptyBag
    /\ refreshFetches = EmptyBag
    /\ checkFetches = EmptyBag
    /\ location = ""
    /\ toasts = {}
    /\ notified = "none"
    /\ cancelled = FALSE
    /\ lastOp = "init"
    /\ installedBy = 0
    /\ calls = 0

ClientInit == ClientInitWith(InitStorages)

(***************************************************************************)
(* Session Client: the effect (useEffect, deps [checkAuth, logout])        *)
(***************************************************************************)
\* initializeAuth up to checkAuth's first await (or to its end when it does not fetch)
InitializeAuth(S) ==
    IF CheckAuthFetches(S, now)
    THEN /\ InFlight < MaxInFlight
         /\ Commit(S)
         /\ checkFetches' = Put(IF phase = "constructed" THEN checkFetches
                                ELSE Unmounted(checkFetches),
                                [tok |-> S.lsToken, mounted |-> TRUE])
    ELSE /\ Cardinality(S.intervals) < MaxTimers
         /\ Commit(StartInterval(CheckAuthNoFetch(S, now), now))
         /\ checkFetches' = IF phase = "constructed" THEN checkFetches
                            ELSE Unmounted(checkFetches)

\* first run of the effect, after the first render
Mount ==
    /\ phase = "constructed"
    /\ phase' = "mounted"
    /\ InitializeAuth(Begin)
    /\ lastOp' = "mount"
    /\ UNCHANGED <<calls, now, mountToken, renderedToken, authReqs, refreshReqs, refreshFetches>>
    /\ UNCHANGED svars

\* access_token changed: re-render, logout is a new function, the effect is
\* cleaned up and run again
EffectRerun ==
    /\ phase = "mounted"
    /\ st_token # renderedToken
    /\ renderedToken' = st_token
    /\ InitializeAuth(EffectCleanup(Begin))
    /\ lastOp' = "effect"
    /\ UNCHANGED <<calls, now, phase, mountToken, authReqs, refreshReqs, refreshFetches>>
    /\ UNCHANGED svars

\* checkAuth after `await fetchUserData(savedToken)`, then the rest of initializeAuth
CheckAuthResume(S, c, ok) ==
    LET S1 == IF ok
              THEN setupTokenRefresh(StoreProfile(S, ProfileRole(c.tok)), c.tok.exp, now)
              ELSE cleanupAuthData(S)
        S2 == [S1 EXCEPT !.isLoading = FALSE]
    IN  IF c.mounted THEN StartInterval(S2, now) ELSE S2

CheckFetchDone ==
    /\ \E c \in BagToSet(checkFetches), ok \in BOOLEAN :
          /\ Cardinality(timeouts) < MaxTimers
          /\ Cardinality(intervals) < MaxTimers
          /\ Commit(CheckAuthResume(Begin, c, ok))
          /\ checkFetches' = Take(checkFetches, c)
          /\ lastOp' = IF ok THEN "checkOk" ELSE "checkFail"
    /\ UNCHANGED <<calls, now, phase, mountToken, renderedToken, authReqs, refreshReqs, refreshFetches>>
    /\ UNCHANGED svars

(***************************************************************************)
(* Session Client: the two timers                                          *)
(***************************************************************************)
\* a timer callback that logs out without the 'session expired' notice
RefreshTimerCallbackWithoutNotice(S) == logout(S, mountToken)

\* the callback of setupTokenRefresh's setTimeout
RefreshTimerCallback(S) == Toast(logout(S, mountToken), "SESSION_EXPIRED")

RefreshTimerFire ==
    /\ \E t \in timeouts :
          /\ t.at <= now
          /\ Commit(RefreshTimerCallback(
                 [Begin EXCEPT !.timeouts = @ \ {t},
                               !.rref = IF @ = t.id THEN StaleRef ELSE @]))
    /\ lastOp' = "timerLogout"
    /\ UNCHANGED <<calls, now, phase, mountToken, renderedToken, authReqs, refreshReqs,
                   refreshFetches, checkFetches>>
    /\ UNCHANGED svars

\* sessionAge > MAX_SESSION_DURATION_MS, with sessionStart read back by parseInt
SessionTooOld(S) ==
    /\ S.lsStart # NoStart
    /\ now - ParseInt(S.lsStart) > MAX_SESSION_DURATION

\* an age watch that announces the expiry and leaves the session in place
AgeWatchCallbackWithoutLogout(S, closed) ==
    IF SessionTooOld(S) THEN Toast(S, "SESSION_EXPIRED") ELSE S

\* the callback of the effect's setInterval; `closed` is the access_token of the
\* render whose effect installed the interval
AgeWatchCallback(S, closed) ==
    IF SessionTooOld(S)
    THEN Toast(logout(S, closed), "SESSION_EXPIRED")
    ELSE S

AgeWatchTick ==
    /\ \E iv \in intervals :
          /\ iv.next <= now
          /\ Commit(AgeWatchCallback(
                 [Begin EXCEPT !.intervals =
                     (@ \ {iv}) \cup {[iv EXCEPT !.next = @ + SESSION_CHECK_PERIOD]}],
                 renderedToken))
    /\ lastOp' = IF SessionTooOld(Cur) THEN "ageLogout" ELSE "ageTick"
    /\ UNCHANGED <<calls, now, phase, mountToken, renderedToken, authReqs, refreshReqs,
                   refreshFetches, checkFetches>>
    /\ UNCHANGED svars

(***************************************************************************)
(* Session Client: login, register, logout                                 *)
(***************************************************************************)
AuthStart ==
    /\ phase = "mounted"
    /\ calls < MaxCalls
    /\ calls' = calls + 1
    /\ InFlight < MaxInFlight
    /\ \E op \in {"login", "register"} :
          authReqs' = Put(authReqs, [op |-> op])
    /\ Commit([Begin EXCEPT !.isLoading = TRUE, !.error = "none"])
    /\ lastOp' = "authStart"
    /\ UNCHANGED <<now, phase, mountToken, renderedToken, refreshReqs, refreshFetches,
                   checkFetches>>
    /\ UNCHANGED svars

AuthKinds == {"ok", "okBadToken", "fail"}

\* a login that stores the session and schedules the timer at the token's expiry
AuthResumeWithoutPreventiveWindow(S, op, kind, role, tok) ==
    LET stored == [S EXCEPT !.lsToken = tok, !.token = tok, !.user = role,
                            !.lsUser = role, !.lsStart = NumberToString(now),
                            !.by = 0]
        failed(X) == [Toast(X, "ERROR") EXCEPT !.error = "auth", !.isLoading = FALSE]
    IN  CASE kind = "ok" ->
               [Toast(Navigate(setupTokenRefresh(stored, tok.exp + PREVENTIVE_REFRESH, now),
                               IF role = "admin" THEN ADMIN_DASHBOARD ELSE HOME),
                      IF op = "login" THEN "LOGIN_SUCCESS" ELSE "REGISTER_SUCCESS")
                  EXCEPT !.isLoading = FALSE]
          [] kind = "okBadToken" -> failed(stored)
          [] OTHER -> failed(S)

\* the catch and finally of login() and of register()
AuthFailed(S) == [Toast(S, "ERROR") EXCEPT !.error = "auth", !.isLoading = FALSE]

\* a login that sends every account to the home route
loginRedirectingHome(S, kind, role, tok) ==
    LET stored == [S EXCEPT !.lsToken = tok, !.token = tok, !.user = role,
                            !.lsUser = role, !.lsStart = NumberToString(now),
                            !.by = 0]
    IN  CASE kind = "ok" ->
               [Toast(Navigate(setupTokenRefresh(stored, tok.exp, now), HOME),
                      "LOGIN_SUCCESS")
                  EXCEPT !.isLoading = FALSE]
          [] kind = "okBadToken" -> AuthFailed(stored)
          [] OTHER -> AuthFailed(S)

\* login() from the response on; `kind` is what came back
login(S, kind, role, tok) ==
    LET stored == [S EXCEPT !.lsToken = tok, !.token = tok, !.user = role,
                            !.lsUser = role, !.lsStart = NumberToString(now),
                            !.by = 0]
    IN  CASE kind = "ok" ->
               [Toast(Navigate(setupTokenRefresh(stored, tok.exp, now),
                               IF role = "admin" THEN ADMIN_DASHBOARD ELSE HOME),
                      "LOGIN_SUCCESS")
                  EXCEPT !.isLoading = FALSE]
          [] kind = "okBadToken" -> AuthFailed(stored)  \* jwtDecode throws
          [] OTHER -> AuthFailed(S)                      \* !response.ok, or fetch rejected

\* register() from the response on
register(S, kind, role, tok) ==
    LET stored == [S EXCEPT !.lsToken = tok, !.token = tok, !.user = role,
                            !.lsUser = role, !.lsStart = NumberToString(now),
                            !.by = 0]
    IN  CASE kind = "ok" ->
               [Toast(Navigate(setupTokenRefresh(stored, tok.exp, now),
                               IF role = "admin" THEN ADMIN_DASHBOARD ELSE HOME),
                      "REGISTER_SUCCESS")
                  EXCEPT !.isLoading = FALSE]
          [] kind = "okBadToken" -> AuthFailed(stored)  \* jwtDecode throws
          [] OTHER -> AuthFailed(S)                      \* !response.ok, or fetch rejected

\* login / register from the response on
AuthResume(S, op, kind, role, tok) ==
    IF op = "login" THEN login(S, kind, role, tok) ELSE register(S, kind, role, tok)

AuthOutcome(op, kind) ==
    CASE op = "login" /\ kind = "ok" -> "loginOk"
      [] op = "login" /\ kind = "okBadToken" -> "loginBadToken"
      [] op = "login" /\ kind = "fail" -> "loginFail"
      [] op = "register" /\ kind = "ok" -> "registerOk"
      [] op = "register" /\ kind = "okBadToken" -> "registerBadToken"
      [] OTHER -> "registerFail"

\* the response to a login or register request arrives; the account's role is
\* one of `roles`
AuthResponseFor(roles) ==
    /\ \E rq \in BagToSet(authReqs), kind \in AuthKinds, role \in roles :
          /\ Cardinality(timeouts) < MaxTimers
          /\ kind = "fail" => role = "user"
          /\ Commit(AuthResume(Begin, rq.op, kind, role,
                               IF kind = "okBadToken" THEN BadTok ELSE IssueToken(now, role)))
          /\ authReqs' = Take(authReqs, rq)
          /\ lastOp' = AuthOutcome(rq.op, kind)
    /\ UNCHANGED <<calls, now, phase, mountToken, renderedToken, refreshReqs, refreshFetches,
                   checkFetches>>
    /\ UNCHANGED svars

\* a consumer calls the logout of the latest render
Logout ==
    /\ phase = "mounted"
    /\ calls < MaxCalls
    /\ calls' = calls + 1
    /\ Commit(logout(Begin, renderedToken))
    /\ lastOp' = "logout"
    /\ UNCHANGED <<now, phase, mountToken, renderedToken, authReqs, refreshReqs,
                   refreshFetches, checkFetches>>
    /\ UNCHANGED svars

(***************************************************************************)
(* Session Client: refreshToken                                            *)
(***************************************************************************)
\* a refresh that takes a missing token for the end of the session
RefreshBeginLoggingOut(S, closed) ==
    IF S.lsToken = NoTok THEN logout(S, closed) ELSE S

\* what refreshToken() does to the state before its first await, or before it
\* returns false for want of a stored token: nothing
RefreshBegin(S, closed) == S

\* refreshToken() up to `await fetch(.../api/auth/refresh)`
RefreshStart ==
    /\ phase = "mounted"
    /\ calls < MaxCalls
    /\ calls' = calls + 1
    /\ IF ls_token = NoTok
       THEN /\ lastOp' = "refreshNoToken"
            /\ UNCHANGED refreshReqs
       ELSE /\ InFlight < MaxInFlight
            /\ refreshReqs' = Put(refreshReqs, [bearer |-> ls_token, closed |-> renderedToken,
                                             seq |-> calls + 1])
            /\ lastOp' = "refreshSent"
    /\ Commit(RefreshBegin(Begin, renderedToken))
    /\ UNCHANGED <<now, phase, mountToken, renderedToken, authReqs, refreshFetches,
                   checkFetches>>
    /\ UNCHANGED svars

\* what the refresh request comes back with
RefreshKinds ==
    {"ok", "401", "notOk", "noToken", "network", "networkFirefox", "networkSafari",
     "exception"}

\* the kinds in which window.fetch rejects because the transport is unreachable
NetworkKinds == {"network", "networkFirefox", "networkSafari"}

\* error.message of the TypeError the browser's fetch rejects with
FetchRejection(kind) ==
    CASE kind = "network" -> MsgFailedToFetch
      [] kind = "networkFirefox" -> MsgNetworkError
      [] OTHER -> MsgLoadFailed

\* error instanceof TypeError && error.message.includes('Failed to fetch')
IsNetworkError(kind) ==
    kind \in NetworkKinds /\ Includes(FetchRejection(kind), PatFailedToFetch)

\* a catch that logs out whatever the error
RefreshCatchAlwaysLoggingOut(S, closed, kind) == logout(S, closed)

\* the outer catch of refreshToken()
RefreshCatch(S, closed, kind) ==
    IF IsNetworkError(kind) THEN S ELSE logout(S, closed)

RefreshOutcome(kind) ==
    CASE kind = "ok" -> "refreshInstalled"
      [] kind = "401" -> "refresh401"
      [] kind = "notOk" -> "refreshNotOk"
      [] kind = "noToken" -> "refreshNoNewToken"
      [] kind = "network" -> "refreshNetwork"
      [] kind = "networkFirefox" -> "refreshNetworkFirefox"
      [] kind = "networkSafari" -> "refreshNetworkSafari"
      [] OTHER -> "refreshException"

\* the access_token of a successful refresh response: same account, new expiry
RefreshedToken(rq) == IssueToken(now, ProfileRole(rq.bearer))

\* a refresh that starts the session's age anew when it installs the token
RefreshResumeRestartingSession(S, rq, kind) ==
    CASE kind = "ok" ->
             [S EXCEPT !.lsToken = RefreshedToken(rq), !.token = RefreshedToken(rq),
                       !.lsStart = NumberToString(now), !.by = rq.seq]
      [] kind = "401" -> logout(S, rq.closed)
      [] kind \in NetworkKinds \cup {"exception"} -> RefreshCatch(S, rq.closed, kind)
      [] OTHER -> S

\* a refresh that treats a 401 like any other failure response
RefreshResumeIgnoring401(S, rq, kind) ==
    CASE kind = "ok" ->
             [S EXCEPT !.lsToken = RefreshedToken(rq), !.token = RefreshedToken(rq),
                       !.by = rq.seq]
      [] kind \in NetworkKinds \cup {"exception"} -> RefreshCatch(S, rq.closed, kind)
      [] OTHER -> S

\* a refresh that logs out on every failure response
RefreshResumeLoggingOutOnFailure(S, rq, kind) ==
    CASE kind = "ok" ->
             [S EXCEPT !.lsToken = RefreshedToken(rq), !.token = RefreshedToken(rq),
                       !.by = rq.seq]
      [] kind \in {"401", "notOk"} -> logout(S, rq.closed)
      [] kind \in NetworkKinds \cup {"exception"} -> RefreshCatch(S, rq.closed, kind)
      [] OTHER -> S

\* refreshToken() from the response up to `await fetchUserData(data.access_token)`
RefreshResume(S, rq, kind) ==
    CASE kind = "ok" ->
             [S EXCEPT !.lsToken = RefreshedToken(rq), !.token = RefreshedToken(rq),
                       !.by = rq.seq]
      [] kind = "401" -> logout(S, rq.closed)
      [] kind \in NetworkKinds \cup {"exception"} -> RefreshCatch(S, rq.closed, kind)
      [] OTHER -> S                                    \* return false

RefreshResponse ==
    /\ \E rq \in BagToSet(refreshReqs), kind \in RefreshKinds :
          /\ Commit(RefreshResume(Begin, rq, kind))
          /\ refreshReqs' = Take(refreshReqs, rq)
          /\ refreshFetches' =
                IF kind = "ok"
                THEN Put(refreshFetches,
                         [tok |-> RefreshedToken(rq), closed |-> rq.closed])
                ELSE refreshFetches
          /\ lastOp' = RefreshOutcome(kind)
    /\ UNCHANGED <<calls, now, phase, mountToken, renderedToken, authReqs, checkFetches>>
    /\ UNCHANGED svars

\* how fetchUserData(data.access_token) ends inside refreshToken
ProfileKinds == {"ok", "fail", "network", "networkFirefox", "networkSafari"}

ProfileOutcome(kind) ==
    CASE kind = "ok" -> "refreshOk"
      [] kind = "fail" -> "refreshProfileFail"
      [] kind = "network" -> "refreshProfileNetwork"
      [] kind = "networkFirefox" -> "refreshProfileNetworkFirefox"
      [] OTHER -> "refreshProfileNetworkSafari"

\* refreshToken() after `await fetchUserData(data.access_token)`
RefreshFinish(S, f, kind) ==
    CASE kind = "ok" -> setupTokenRefresh(StoreProfile(S, ProfileRole(f.tok)), f.tok.exp, now)
      [] OTHER -> RefreshCatch(S, f.closed, kind)

RefreshFetchDone ==
    /\ \E f \in BagToSet(refreshFetches), kind \in ProfileKinds :
          /\ Cardinality(timeouts) < MaxTimers
          /\ Commit(RefreshFinish(Begin, f, kind))
          /\ refreshFetches' = Take(refreshFetches, f)
          /\ lastOp' = ProfileOutcome(kind)
    /\ UNCHANGED <<calls, now, phase, mountToken, renderedToken, authReqs, refreshReqs,
                   checkFetches>>
    /\ UNCHANGED svars

(***************************************************************************)
(* Time                                                                    *)
(***************************************************************************)
\* One minute passes.  Requests are answered within the minute in which they are
\* sent, a due timer runs before the clock moves on and a pending re-render is
\* committed first; within the minute all of these run in any order.
Tick ==
    /\ phase = "mounted"
    /\ now < PageLoadTime + MaxElapsed
    /\ st_token = renderedToken
    /\ \A t \in timeouts : t.at > now
    /\ \A iv \in intervals : iv.next > now
    /\ InFlight = 0
    /\ now' = now + 1
    /\ lastOp' = "tick"
    /\ toasts' = {}
    /\ location' = ""
    /\ notified' = "none"
    /\ cancelled' = FALSE
    /\ UNCHANGED <<calls, installedBy, ls_token, ls_user, ls_start, st_token, st_user, isLoading, error, phase,
                   mountToken, renderedToken, timeouts, intervals, refreshTimeoutRef,
                   sessionCheckIntervalRef, authReqs, refreshReqs, refreshFetches,
                   checkFetches>>
    /\ UNCHANGED svars

(***************************************************************************)
(* Specifications                                                          *)
(***************************************************************************)
(***************************************************************************)
(* Session Client: unmount                                                 *)
(***************************************************************************)
\* the provider is unmounted: React runs the cleanup function of the effect.
\* Requests in flight are not aborted and their continuations still run.
Unmount ==
    /\ phase = "mounted"
    /\ phase' = "unmounted"
    /\ Commit(EffectCleanup(Begin))
    /\ checkFetches' = Unmounted(checkFetches)
    /\ lastOp' = "unmount"
    /\ UNCHANGED <<calls, now, mountToken, renderedToken, authReqs, refreshReqs, refreshFetches>>
    /\ UNCHANGED svars

Init == GateInit /\ HandleInit /\ ConcurrentInit /\ LocalInit /\ ClientInit

\* the gate alone, beside a client that stays as constructed
GateOnlyInit == Init /\ ls_token = NoTok

\* the response to a login or register request of an ordinary account arrives
AuthResponse == AuthResponseFor({"user"})

Next ==
    \/ Mount
    \/ EffectRerun
    \/ CheckFetchDone
    \/ RefreshTimerFire
    \/ AgeWatchTick
    \/ AuthStart
    \/ AuthResponse
    \/ Logout
    \/ RefreshStart
    \/ RefreshResponse
    \/ RefreshFetchDone
    \/ Tick

Spec == Init /\ [][Next]_vars

\* the response to a login or register request of any account arrives
AuthResponseAnyRole == AuthResponseFor(Roles)

\* login, register and logout of accounts of every role, with the startup
\* check and the two timers; refreshToken() is not called
LoginNext ==
    \/ Mount
    \/ EffectRerun
    \/ CheckFetchDone
    \/ RefreshTimerFire
    \/ AgeWatchTick
    \/ AuthStart
    \/ AuthResponseAnyRole
    \/ Logout
    \/ Tick

LoginSpec == Init /\ [][LoginNext]_vars

\* a provider that may be unmounted at any moment, with the startup check,
\* login, register, logout and the two timers; refreshToken() is not called
UnmountNext ==
    \/ Mount
    \/ EffectRerun
    \/ CheckFetchDone
    \/ RefreshTimerFire
    \/ AgeWatchTick
    \/ AuthStart
    \/ AuthResponse
    \/ Logout
    \/ Tick
    \/ Unmount

UnmountSpec == Init /\ [][UnmountNext]_vars

\* the startup check on every localStorage a page load may find, with login,
\* register, logout and the two timers; refreshToken() is not called
StartupInit ==
    /\ GateInit /\ HandleInit /\ ConcurrentInit /\ LocalInit
    /\ ClientInitWith(InitStorages \cup {UndecodableStorage})

StartupNext ==
    \/ Mount
    \/ EffectRerun
    \/ CheckFetchDone
    \/ RefreshTimerFire
    \/ AgeWatchTick
    \/ AuthStart
    \/ AuthResponse
    \/ Logout
    \/ Tick

StartupSpec == StartupInit /\ [][StartupNext]_vars

GateNext ==
    \/ GateArrive
    \/ GateCanActivate
    \/ GateRespond

GateSpec == GateOnlyInit /\ [][GateNext]_vars

ConcurrentNext ==
    \/ ConcurrentArrive
    \/ ConcurrentLookup
    \/ ConcurrentDecide
    \/ ConcurrentRespond
    \/ AccountToggle

\* the gate under concurrent requests, beside a client that stays as constructed
ConcurrentSpec == GateOnlyInit /\ [][ConcurrentNext]_vars

LocalNext ==
    \/ LocalArrive
    \/ LocalValidate
    \/ LocalRespond

\* the credential validator alone, beside a gate and a client that stay as constructed
LocalSpec == GateOnlyInit /\ [][LocalNext]_vars

\* the two places that classify a temporarily disconnected account:
\* handleRequest of the gate and validate of the credential validator
HoursNext ==
    \/ HandleArrive
    \/ HandleThrow
    \/ HandleRespond
    \/ LocalArrive
    \/ LocalValidate
    \/ LocalRespond

HoursSpec == GateOnlyInit /\ [][HoursNext]_vars

(***************************************************************************)
(* Request Gate: properties (checked under GateSpec)                       *)
(***************************************************************************)
Decided == gphase = "decided"

\* the request targets the logout route itself, POST /api/auth/logout
ToLogoutRoute == greq.route = "logout"

\* a bearer token that jsonwebtoken verifies: well formed and well signed
VerifiableToken == greq.header = "bearer" /\ greq.form = "ok"

\* nothing underneath super.canActivate fails unexpectedly
NoFault == greq.fault = "none"

\* JwtStrategy.validate returns a user for the token
ValidatedSuccessfully ==
    /\ VerifiableToken /\ ~greq.expired /\ NoFault
    /\ greq.sub = "string" /\ greq.lookup = "user" /\ greq.isActive
    /\ greq.admin # "adminMismatch"

\* C1: every request to the logout route is admitted, whatever the state of
\* its token (absent, expired, malformed, badly signed, rejected by
\* validation) and also when validation raises an unexpected error.
C1_LogoutAlwaysAdmitted ==
    (Decided /\ ToLogoutRoute) => gdec.admit

\* C2: a request to a route other than the logout route that carries a token
\* whose expiry has passed is denied with code SESSION_EXPIRED and is never
\* admitted.
C2_ExpiredTokenDenied ==
    (Decided /\ ~ToLogoutRoute /\ VerifiableToken /\ greq.expired /\ NoFault)
        => (~gdec.admit /\ gdec.code = "SESSION_EXPIRED")

\* C3: a request to a route other than the logout route with a valid,
\* unexpired token whose account has isActive = false is denied, and the
\* code of the denial is ACCOUNT_DISABLED, not a generic one.
C3_DisabledAccountDenied ==
    (/\ Decided /\ ~ToLogoutRoute /\ VerifiableToken /\ ~greq.expired /\ NoFault
     /\ greq.sub = "string" /\ greq.lookup = "user" /\ ~greq.isActive)
        => (~gdec.admit /\ gdec.code = "ACCOUNT_DISABLED")

\* C4: on a route other than the logout route, a token that validated
\* successfully is denied with INVALID_TOKEN_TYPE exactly when its tokenType
\* claim is present and differs from "access"; a token of another type is
\* never admitted.
C4_TokenTypeChecked ==
    (Decided /\ ~ToLogoutRoute /\ ValidatedSuccessfully)
        => IF greq.tokenType \in {"absent", "access"}
           THEN gdec.code # "INVALID_TOKEN_TYPE"
           ELSE ~gdec.admit /\ gdec.code = "INVALID_TOKEN_TYPE"

\* C5: a request to a route other than the logout route that carries no
\* token, neither an Authorization header nor an access_token cookie, is
\* denied with code AUTH_REQUIRED, and token validation does not run.
C5_MissingTokenDenied ==
    (Decided /\ ~ToLogoutRoute /\ ~TokenPresent(greq))
        => (~gdec.admit /\ gdec.code = "AUTH_REQUIRED" /\ ~gdec.validated)

(***************************************************************************)
(* Session Client: properties (checked under Spec)                         *)
(***************************************************************************)
\* all three storage keys are absent
StorageCleared == ls_token = NoTok /\ ls_user = NoUsr /\ ls_start = NoStart

\* C6: at every tick of the age watch at which a session start is stored and
\* now - sessionStart > MAX_SESSION_DURATION, the client forces logout: the
\* three storage keys are cleared, the refresh timer and the age watch are
\* cancelled and the 'session expired' notice is shown, also when the stored
\* access token has not expired.
C6_AgeWatchForcesLogout ==
    [][(AgeWatchTick /\ SessionTooOld(Cur))
          => /\ StorageCleared'
             /\ timeouts' = {} /\ intervals' = {}
             /\ refreshTimeoutRef' = NullRef /\ sessionCheckIntervalRef' = NullRef
             /\ "SESSION_EXPIRED" \in toasts'
             /\ location' = LOGIN]_vars

\* the age watch has just logged out a session whose token was still stored
\* and whose refresh timer was still pending, that is, a token not yet expired
C6_Witness ==
    /\ lastOp = "ageLogout"
    /\ notified = "current"
    /\ cancelled
    /\ StorageCleared

\* C7: no session is still active once now - sessionStart exceeds
\* MAX_SESSION_DURATION plus one period of the age watch.
C7_SessionLifetimeBounded ==
    (ls_start # NoStart /\ ls_token # NoTok)
        => now - ParseInt(ls_start) <= MAX_SESSION_DURATION + SESSION_CHECK_PERIOD

StartupOps == {"mount", "effect", "checkOk", "checkFail"}
\* the refresh request rejected by an unreachable transport, by browser
RefreshNetworkOps == {"refreshNetwork", "refreshNetworkFirefox", "refreshNetworkSafari"}
\* the same for the profile re-fetch inside refreshToken()
ProfileNetworkOps ==
    {"refreshProfileNetwork", "refreshProfileNetworkFirefox", "refreshProfileNetworkSafari"}
RefreshOps ==
    {"refreshNoToken", "refreshSent", "refreshInstalled", "refresh401", "refreshNotOk",
     "refreshNoNewToken", "refreshException", "refreshOk", "refreshProfileFail"}
        \cup RefreshNetworkOps \cup ProfileNetworkOps

C9_OneRefreshTimer == Cardinality(timeouts) <= 1

\* a refresh has rescheduled the timer while the timer of the earlier token
\* was pending: the earlier one was cancelled and one timer is pending
C9_Witness ==
    /\ lastOp = "refreshOk"
    /\ cancelled
    /\ Cardinality(timeouts) = 1

\* C10: whenever a refresh timer is pending, its deadline is the expiry of
\* the stored token less the preventive window.
C10_TimerBoundToStoredToken ==
    \A t \in timeouts :
        ls_token.t = "jwt" /\ t.at = ls_token.exp - PREVENTIVE_REFRESH

\* logout() ran in the last handler
LoggedOut == notified # "none"

\* C11: right after logout() returns, the three storage keys are absent, the
\* in-memory user and token are null, the refresh timer and the age watch
\* are cancelled and the client is on the login route, whatever becomes of
\* the notification sent to the server.
C11_LogoutSucceedsLocally ==
    LoggedOut
        => /\ StorageCleared
           /\ st_token = NoTok /\ st_user = NoUsr
           /\ timeouts = {} /\ intervals = {}
           /\ refreshTimeoutRef = NullRef /\ sessionCheckIntervalRef = NullRef
           /\ location = LOGIN

\* a consumer's logout has ended a session whose token was stored and whose
\* refresh timer was pending
C11_Witness ==
    /\ lastOp = "logout"
    /\ notified = "current"
    /\ cancelled
    /\ location = LOGIN

C13_RefreshWithoutTokenIsNoOp ==
    [][(ls_token = NoTok /\ RefreshStart)
          => /\ lastOp' = "refreshNoToken"
             /\ UNCHANGED <<refreshReqs, refreshFetches, authReqs, checkFetches>>
             /\ UNCHANGED <<ls_token, ls_user, ls_start, st_token, st_user>>
             /\ UNCHANGED <<timeouts, intervals, refreshTimeoutRef, sessionCheckIntervalRef>>
             /\ notified' = "none" /\ location' = ""]_vars

\* refreshToken() has returned false for want of a token while the age watch
\* was running, and the age watch still is
C13_Witness ==
    /\ lastOp = "refreshNoToken"
    /\ ls_token = NoTok
    /\ intervals # {}

\* C14: when the refresh request is answered 401, refreshToken() returns
\* false and the client is logged out: the three storage keys are cleared
\* and the refresh timer and the age watch are cancelled.
C14_Refresh401LogsOut ==
    [][(lastOp' = "refresh401" /\ RefreshResponse)
          => /\ StorageCleared' /\ st_token' = NoTok /\ st_user' = NoUsr
             /\ LoggedOut'
             /\ timeouts' = {} /\ intervals' = {}
             /\ refreshFetches' = refreshFetches]_vars

\* a 401 has ended a session whose token was stored and whose refresh timer
\* was pending
C14_Witness ==
    /\ lastOp = "refresh401"
    /\ notified = "current"
    /\ cancelled
    /\ StorageCleared

\* C15: when the refresh request fails because the transport is
\* unreachable, refreshToken() returns false and the session is kept: token,
\* user, session start and both pending timers are as before the call, and
\* no logout occurs.
C15_NetworkFailureKeepsSession ==
    [][(lastOp' \in RefreshNetworkOps /\ RefreshResponse)
          => /\ UNCHANGED <<ls_token, ls_user, ls_start, st_token, st_user>>
             /\ UNCHANGED <<timeouts, intervals, refreshTimeoutRef, sessionCheckIntervalRef>>
             /\ ~LoggedOut'
             /\ refreshFetches' = refreshFetches]_vars

\* C16: when the refresh request is answered with a failure status other
\* than 401, refreshToken() returns false without logging out and without
\* changing the stored session or the timers.
C16_FailureResponseKeepsSession ==
    [][(lastOp' = "refreshNotOk" /\ RefreshResponse)
          => /\ UNCHANGED <<ls_token, ls_user, ls_start, st_token, st_user>>
             /\ UNCHANGED <<timeouts, intervals, refreshTimeoutRef, sessionCheckIntervalRef>>
             /\ ~LoggedOut'
             /\ refreshFetches' = refreshFetches]_vars

\* a failure response has left a session with its token and its pending
\* refresh timer
C16_Witness ==
    /\ lastOp = "refreshNotOk"
    /\ ls_token # NoTok /\ ls_start # NoStart
    /\ timeouts # {} /\ intervals # {}

\* the ways refreshToken() fails after it has sent its request
RefreshFailures ==
    {"refresh401", "refreshNotOk", "refreshNoNewToken", "refreshException",
     "refreshProfileFail"} \cup RefreshNetworkOps \cup ProfileNetworkOps

\* the failures after which refreshToken() leaves the session in place
RefreshFailuresKeepingSession ==
    {"refreshNotOk", "refreshNoNewToken", "refreshNetwork", "refreshProfileNetwork"}

C18_RefreshSuccessInstallsToken ==
    (lastOp = "refreshOk")
        => /\ ls_token.t = "jwt" /\ ls_token.exp = now + ACCESS_TOKEN_EXPIRATION
           /\ st_token = ls_token
           /\ ls_user = ProfileRole(ls_token) /\ st_user = ls_user
           /\ Cardinality(timeouts) = 1
           /\ \A t \in timeouts : t.at = ls_token.exp - PREVENTIVE_REFRESH

\* C19: after a successful login() the three storage keys are set (the
\* token of the response, the user profile, sessionStart = now) and exactly
\* one refresh timer is pending, due at the issued token's expiry less the
\* preventive window.
C19_LoginCreatesSession ==
    (lastOp = "loginOk")
        => /\ ls_token = IssueToken(now, ls_token.role) /\ st_token = ls_token
           /\ ls_user = ls_token.role /\ ls_user \in Roles /\ st_user = ls_user
           /\ ls_start = NumberToString(now)
           /\ Cardinality(timeouts) = 1
           /\ \A t \in timeouts :
                 /\ t.at = ls_token.exp - PREVENTIVE_REFRESH
                 /\ t.id = refreshTimeoutRef

\* a login has succeeded over an earlier session, whose pending timer it
\* replaced
C19_Witness ==
    /\ lastOp = "loginOk"
    /\ cancelled
    /\ ls_start = NumberToString(now)
    /\ timeouts # {}

\* C20: when login() fails, whether by a failure response, a network error
\* or a response token that cannot be decoded, the session state is as it
\* was (no token, user or session start is stored, no timer is scheduled or
\* cancelled) and the error is kept in the error state.
C20_FailedLoginLeavesState ==
    [][(lastOp' \in {"loginFail", "loginBadToken"})
          => /\ UNCHANGED <<ls_token, ls_user, ls_start, st_token, st_user>>
             /\ UNCHANGED <<timeouts, intervals, refreshTimeoutRef, sessionCheckIntervalRef>>
             /\ error' # "none"]_vars

\* C21: when the refresh timer fires, the client logs out (the three storage
\* keys and the in-memory session are cleared, the refresh timer and the age
\* watch are cancelled, the client is sent to the login route) and shows the
\* 'session expired' notice; it sends no refresh request.
C21_TimerFireLogsOut ==
    [][(lastOp' = "timerLogout" /\ RefreshTimerFire)
          => /\ StorageCleared' /\ st_token' = NoTok /\ st_user' = NoUsr
             /\ LoggedOut' /\ location' = LOGIN
             /\ timeouts' = {} /\ intervals' = {}
             /\ "SESSION_EXPIRED" \in toasts'
             /\ UNCHANGED <<refreshReqs, refreshFetches>>]_vars

\* the timer has fired on a session whose token was still stored
C21_Witness ==
    /\ lastOp = "timerLogout"
    /\ notified = "current"
    /\ "SESSION_EXPIRED" \in toasts
    /\ StorageCleared

\* isAuthenticated: !!user && !!access_token
isAuthenticated == st_user # NoUsr /\ st_token # NoTok

\* no operation of the client is in mid-step: the effect has run for the
\* latest render and no call awaits an answer
NoOperationInMidStep ==
    /\ phase = "mounted"
    /\ st_token = renderedToken
    /\ InFlight = 0

\* C22: in every state in which the client considers itself authenticated
\* (user and token both non-null) and no operation is in mid-step, the
\* expiry of the stored token is still in the future: the preventive timer
\* or the startup check has ended or renewed the session before.
C22_AuthenticatedTokenNotExpired ==
    (isAuthenticated /\ NoOperationInMidStep)
        => (ls_token.t = "jwt" /\ ls_token.exp > now)

\* all three storage keys are present
StoragePresent == ls_token # NoTok /\ ls_user # NoUsr /\ ls_start # NoStart

\* C23: the three persisted keys (access token, user profile, session start)
\* are written and cleared as a set: in every state in which no operation
\* of the client is in mid-step, all three are present or all three are
\* absent.
C23_StorageKeysAsASet ==
    NoOperationInMidStep => (StoragePresent \/ StorageCleared)

\* a session is active: the client is authenticated and the three keys are stored
SessionActive == isAuthenticated /\ StoragePresent

\* C24: in every state in which a session is active and no operation of the
\* client is in mid-step, exactly one refresh timer and exactly one
\* age-watch interval are pending, never zero and never two.
C24_OneTimerAndOneInterval ==
    (SessionActive /\ NoOperationInMidStep)
        => (Cardinality(timeouts) = 1 /\ Cardinality(intervals) = 1)

(***************************************************************************)
(* Session Client: properties of login and register (checked under         *)
(* LoginSpec)                                                              *)
(***************************************************************************)
\* the state after the step is the session state S: storage, in-memory
\* session, timers and route, leaving the toasts aside
SameSessionAs(S) ==
    /\ ls_token' = S.lsToken /\ ls_user' = S.lsUser /\ ls_start' = S.lsStart
    /\ st_token' = S.token /\ st_user' = S.user
    /\ isLoading' = S.isLoading /\ error' = S.error
    /\ timeouts' = S.timeouts /\ refreshTimeoutRef' = S.rref
    /\ intervals' = S.intervals /\ sessionCheckIntervalRef' = S.iref
    /\ location' = S.location

\* a successful register() ends where login() would have ended for the same
\* response: the three keys stored with sessionStart = now, one refresh timer
\* due at the token's expiry less the preventive window, the redirect by role
RegisterSuccessLikeLogin ==
    (lastOp' = "registerOk")
        => /\ SameSessionAs(login(Begin, "ok", ls_user', ls_token'))
           /\ StoragePresent' /\ ls_start' = NumberToString(now)
           /\ ls_token' = IssueToken(now, ls_user')
           /\ timeouts' = {[id |-> refreshTimeoutRef',
                            at |-> ls_token'.exp - PREVENTIVE_REFRESH]}
           /\ location' = IF ls_user' = "admin" THEN ADMIN_DASHBOARD ELSE HOME

\* C25: a successful register() leaves the client in the post-state of a
\* successful login() with the same issued credential (the three keys stored
\* with sessionStart = now, one refresh timer at the expiry less the
\* preventive window, the same redirect by role), and a failed register()
\* stores nothing.
C25_RegisterLikeLogin ==
    [][/\ RegisterSuccessLikeLogin
       /\ (lastOp' \in {"registerFail", "registerBadToken"})
             => UNCHANGED <<ls_token, ls_user, ls_start>>]_vars

\* C26: after a successful login the client is on the route its role alone
\* determines (the admin landing route for role admin, the home route for
\* every other role), with the session stored and the refresh timer
\* scheduled; a login that fails before that point does not redirect.
C26_LoginRedirectByRole ==
    /\ (lastOp = "loginOk")
          => /\ location = (IF ls_user = "admin" THEN ADMIN_DASHBOARD ELSE HOME)
             /\ StoragePresent /\ isAuthenticated
             /\ ls_start = NumberToString(now)
             /\ \E t \in timeouts :
                   t.id = refreshTimeoutRef /\ t.at = ls_token.exp - PREVENTIVE_REFRESH
    /\ (lastOp \in {"loginFail", "loginBadToken"}) => location = ""

\* an administrator has logged in and is on the admin landing route
C26_Witness ==
    /\ lastOp = "loginOk"
    /\ ls_user = "admin"
    /\ location = ADMIN_DASHBOARD
    /\ timeouts # {}

(***************************************************************************)
(* Request Gate: the denial taxonomy (checked under GateSpec)              *)
(***************************************************************************)
\* the eight reasons of the denial taxonomy
DenialReasons ==
    {"missing-token", "token-expired", "token-malformed", "account-disabled",
     "maintenance-mode", "temporarily-locked", "invalid-token-type",
     "generic-auth-error"}

\* the code the guard throws for each reason
ReasonCode(reason) ==
    CASE reason = "missing-token" -> "AUTH_REQUIRED"
      [] reason = "token-expired" -> "SESSION_EXPIRED"
      [] reason = "token-malformed" -> "INVALID_TOKEN"
      [] reason = "account-disabled" -> "ACCOUNT_DISABLED"
      [] reason = "maintenance-mode" -> "MAINTENANCE_MODE"
      [] reason = "temporarily-locked" -> "TEMPORARY_LOGOUT"
      [] reason = "invalid-token-type" -> "INVALID_TOKEN_TYPE"
      [] OTHER -> "AUTH_ERROR"

TaxonomyCodes == {ReasonCode(reason) : reason \in DenialReasons}

\* C27: every request the gate handles ends in one decision, admit or deny
\* with a reason; the code of every denial is the code of one of the eight
\* reasons of the taxonomy, and two different reasons never have the same
\* code.
C27_DenialsWithinTaxonomy ==
    Decided
        => /\ gdec.admit <=> gdec.code = ""
           /\ ~gdec.admit => gdec.code \in TaxonomyCodes
           /\ \A a, b \in DenialReasons : a # b => ReasonCode(a) # ReasonCode(b)

(***************************************************************************)
(* Credential Validator: properties (checked under LocalSpec)              *)
(***************************************************************************)
LocalDecided == vphase = "decided"

\* the codes by which validate classifies a refused login
ClassificationCodes ==
    {CodeInvalidCredentials, COMPTE_DESACTIVE, MAINTENANCE_MODE,
     COMPTE_TEMPORAIREMENT_DECONNECTE, PASSWORD_RESET_REQUIRED}

\* C28: LocalStrategy.validate returns the user when upstream returns one;
\* otherwise it throws an authentication error with one code: the code of
\* invalid credentials when no user matches, and for an account state
\* reported upstream the code of that state (disabled, maintenance,
\* temporarily disconnected with the hours left, password reset required);
\* an upstream authentication error that already carries a code is thrown
\* on unchanged.
C28_CredentialClassification ==
    (LocalDecided /\ vreq.emailKind = "string")
        => LET kind == vreq.up.kind
           IN  /\ (kind = "user") <=> ~vres.thrown
               /\ vres.thrown => vres.code # NoMessage
               /\ (kind = "null") => vres.code = CodeInvalidCredentials
               /\ (kind = "disabled") => vres.code = COMPTE_DESACTIVE
               /\ (kind = "maintenance") => vres.code = MAINTENANCE_MODE
               /\ (kind = "resetRequired") => vres.code = PASSWORD_RESET_REQUIRED
               /\ (kind = "locked")
                     => /\ vres.code = COMPTE_TEMPORAIREMENT_DECONNECTE
                        /\ (vreq.up.hours >= 0) => vres.hours = vreq.up.hours
               /\ (kind = "coded")
                     => (vres.code = vreq.up.code /\ vres.message = vreq.up.message)
               /\ Cardinality(ClassificationCodes) = 5

\* a login to an account disconnected for another 12 hours has been refused
\* with the code of that state and the 12 hours
C28_Witness ==
    /\ LocalDecided
    /\ vreq.up.kind = "locked" /\ vreq.up.hours = 12
    /\ vres.thrown
    /\ vres.code = COMPTE_TEMPORAIREMENT_DECONNECTE
    /\ vres.hours = 12

\* error.message of the error validate catches
OriginalMessage(r) ==
    IF r.emailKind # "string" THEN MsgNotAFunction ELSE r.up.message

\* the attempt ends in an error validate has no classification for: an
\* UnauthorizedException with a message of no known account state, or an
\* error of another type
Unclassified(r) ==
    r.emailKind # "string" \/ r.up.kind \in {"unclassified", "fault"}

\* C29: an unclassified or unexpected error raised during credential
\* validation reaches the caller as the fixed generic authentication error
\* (generic message, generic code), and no text of the original error
\* reaches the caller.
C29_GenericErrorHidesOriginal ==
    (LocalDecided /\ Unclassified(vreq))
        => /\ vres.thrown
           /\ vres.code \in {CodeAuthSystemError, CodeAuthenticationError}
           /\ vres.message = MsgErreurAuthentification
           /\ ~Includes(vres.message, OriginalMessage(vreq))

\* the call of slot i has its decision
SlotDecided(i) == slots[i].phase = "decided"

\* the request of a call with the user state its own lookup returned
RequestAsValidated(i) == [slots[i].req EXCEPT !.isActive = slots[i].active]

SupersededResponseArrives ==
    /\ installedBy > 0
    /\ \E rq \in BagToSet(refreshReqs) :
          rq.seq < installedBy /\ refreshReqs' = Take(refreshReqs, rq)

\* C31: the response to an older refresh request that arrives after the
\* response to a newer one has been installed is ignored: the stored token,
\* the user profile and the pending refresh timer stay as the newer response
\* left them.
C31_SupersededRefreshIgnored ==
    [][SupersededResponseArrives =>
          /\ ls_token' = ls_token /\ st_token' = st_token
          /\ ls_user' = ls_user /\ st_user' = st_user
          /\ timeouts' = timeouts]_vars

\* what the teardown functions act on: the storage keys, the React state,
\* the two timer tables and the two refs
SessionState(S) ==
    <<S.lsToken, S.lsUser, S.lsStart, S.token, S.user, S.error,
      S.timeouts, S.intervals, S.rref, S.iref>>

NoKeyStored(S) == S.lsToken = NoTok /\ S.lsUser = NoUsr /\ S.lsStart = NoStart

NoTimerPending(S) == S.timeouts = {} /\ S.intervals = {}

\* C32: the teardown is idempotent: in every state, whether a timer is
\* pending or not, cleanupAuthData and logout leave no key stored and no
\* timer pending, the effect's cleanup leaves no timer pending, and running
\* any of them a second time leaves the state the first run produced.
C32_TeardownIdempotent ==
    LET T == cleanupAuthData(Cur)
        L == logout(Cur, renderedToken)
        E == EffectCleanup(Cur)
    IN  /\ NoKeyStored(T) /\ NoTimerPending(T)
        /\ SessionState(cleanupAuthData(T)) = SessionState(T)
        /\ NoKeyStored(L) /\ NoTimerPending(L)
        /\ SessionState(logout(L, renderedToken)) = SessionState(L)
        /\ SessionState(cleanupAuthData(L)) = SessionState(L)
        /\ NoTimerPending(E)
        /\ SessionState(EffectCleanup(E)) = SessionState(E)

\* logout() has just run and cancelled a pending refresh timer; run on the
\* state it left, with no timer pending, the teardown changes nothing
C32_Witness ==
    /\ lastOp = "logout" /\ cancelled
    /\ NoKeyStored(Cur) /\ NoTimerPending(Cur)
    /\ SessionState(cleanupAuthData(Cur)) = SessionState(Cur)

\* C33: once the provider is unmounted no refresh timer and no age-watch
\* interval is pending, and none becomes pending later, also when the
\* startup check's profile fetch was in flight at the unmount and completes
\* afterwards.
C33_NoTimerAfterUnmount ==
    phase = "unmounted" => (timeouts = {} /\ intervals = {})

\* the answer to a request that was in flight arrives: the refresh request or
\* the profile fetch of refreshToken(), or the profile fetch of checkAuth
LateAnswerArrives == RefreshResponse \/ RefreshFetchDone \/ CheckFetchDone

\* C34: once logout() has cleared the session, the answer to a refresh or to
\* a profile fetch that was in flight when logout ran installs nothing: the
\* storage keys stay absent, the client stays unauthenticated and no refresh
\* timer is scheduled.  Checked at the first answer that arrives after
\* logout().
C34_LogoutNotUndoneByLateAnswer ==
    [][(LoggedOut /\ LateAnswerArrives)
          => /\ StorageCleared'
             /\ st_token' = NoTok /\ st_user' = NoUsr
             /\ timeouts' = {}]_vars

(***************************************************************************)
(* Request Gate: the override and admission (C35, C36, C38)                *)
(***************************************************************************)
\* the request carries no token, or a bearer token that is expired, malformed
\* or badly signed
TokenMissingExpiredOrInvalid ==
    \/ ~TokenPresent(greq)
    \/ greq.header = "bearer" /\ (greq.form # "ok" \/ greq.expired)

\* C35: the logout override applies to the logout route only: a request to
\* any other route, the admin-only logout-all route included, with a missing,
\* expired or invalid token is denied.
C35_OverrideOnlyOnLogoutRoute ==
    (Decided /\ ~ToLogoutRoute /\ TokenMissingExpiredOrInvalid) => ~gdec.admit

\* C36: every request to a route other than the logout route that the gate
\* admits carried a token that passed signature and expiry verification,
\* whose subject is a string resolving to an existing user with isActive
\* true (for an admin, with the configured admin email), and whose token type
\* is absent or 'access'.
C36_AdmissionSafety ==
    (Decided /\ ~ToLogoutRoute /\ gdec.admit)
        => (ValidatedSuccessfully /\ greq.tokenType \in {"absent", "access"})

(***************************************************************************)
(* Session Client: the logout notification and the startup check (C37, C39) *)
(***************************************************************************)
\* C37: every execution of logout() while a token is stored, whether called
\* by the user, after a 401 on refresh, by the refresh timer or by the age
\* watch, sends the logout notification with the token stored at that
\* moment: it is not omitted and does not bear the token of an earlier render.
C37_LogoutNotifiesWithStoredToken ==
    [][(notified' # "none" /\ ls_token # NoTok) => notified' = "current"]_vars

\* remainingHours for a message that reports h hours, or none when h < 0
ReportedHours(h) == IF h < 0 THEN 24 ELSE h

\* handleRequest has thrown for a temporarily disconnected account
HandleLocked == hphase = "thrown" /\ Includes(herr.message, PatDeconnecteTemporairement)

\* validate has thrown for a temporarily disconnected account
LocalLocked == LocalDecided /\ vreq.emailKind = "string" /\ vreq.up.kind = "locked"

\* C38: the temporarily-locked classification of the gate and of the
\* credential validator reports as remainingHours the first run of digits
\* that follows a ':' in the upstream message, and 24 when the message has
\* no such number; the value is always a number.
C38_RemainingHours ==
    /\ HandleLocked
          => /\ hexc.code = "TEMPORARY_LOGOUT"
             /\ hexc.hours = ReportedHours(herr.hours)
             /\ hexc.hours \in Nat
    /\ LocalLocked
          => /\ vres.code = COMPTE_TEMPORAIREMENT_DECONNECTE
             /\ vres.hours = ReportedHours(vreq.up.hours)
             /\ vres.hours \in Nat

\* the gate has reported the 48 hours of a message with another number before
\* the ':', and the validator the default for a message with digits and no ':'
C38_Witness ==
    /\ HandleLocked /\ herr.hours = 48 /\ hexc.hours = 48
    /\ LocalLocked /\ vreq.up.hours = -1 /\ vreq.up.message # COMPTE_TEMPORAIREMENT_DECONNECTE
    /\ vres.hours = 24

\* the effect calls checkAuth(), which runs to its first await or to its end
CheckAuthStarts == (lastOp' = "mount" /\ Mount) \/ (lastOp' = "effect" /\ EffectRerun)

\* checkAuth resumes after its profile fetch failed / succeeded
CheckAuthFetchFailed == lastOp' = "checkFail" /\ CheckFetchDone
CheckAuthFetchSucceeded == lastOp' = "checkOk" /\ CheckFetchDone

\* the step has scheduled no refresh timer
NoTimerScheduled == timeouts' \subseteq timeouts

\* checkAuth has cleared the session: the three keys are absent, no refresh
\* timer is scheduled
CheckAuthCleared == StorageCleared' /\ NoTimerScheduled /\ isLoading' = FALSE

\* C39: checkAuth with no stored token changes nothing; with a stored token
\* that is expired or cannot be decoded, or whose profile fetch fails, it
\* clears the three storage keys and schedules no refresh timer; with a
\* stored unexpired token and a successful profile fetch it keeps the
\* session, leaves session-start unchanged and schedules a refresh timer
\* against that token's expiry; in every case isLoading ends false.
C39_StartupCheck ==
    [][/\ (CheckAuthStarts /\ ls_token = NoTok)
             => /\ UNCHANGED <<ls_token, ls_user, ls_start, st_token, st_user>>
                /\ NoTimerScheduled
                /\ isLoading' = FALSE
       /\ (CheckAuthStarts /\ ls_token # NoTok /\ ~CheckAuthFetches(Cur, now))
             => CheckAuthCleared
       /\ CheckAuthFetchFailed => CheckAuthCleared
       /\ CheckAuthFetchSucceeded
             => \E c \in BagToSet(checkFetches) :
                   /\ checkFetches' = Take(checkFetches, c)
                   /\ ls_token' = c.tok /\ st_token' = c.tok
                   /\ ls_user' # NoUsr /\ st_user' # NoUsr
                   /\ ls_start' = ls_start
                   /\ \E x \in timeouts' :
                         x.id = refreshTimeoutRef' /\ x.at = c.tok.exp - PREVENTIVE_REFRESH
                   /\ isLoading' = FALSE]_vars

====
